---- MODULE Spec2Model ----
(***************************************************************************)
(* Model of the Debian linux packaging generator:                          *)
(*   debian/lib/python/debian_linux/gencontrol.py  (Makefile, walker)      *)
(*   debian/lib/python/debian_linux/debian.py      (relations)             *)
(*                                                                         *)
(* Text is modelled as sequences of tokens.  A token is an indivisible     *)
(* piece of a Python string; concatenation is \o.  The token alphabet is   *)
(* prefix-free, so the lexicographic order on token sequences (tokens      *)
(* ranked by StrOrder) is the order Python's str comparison gives.         *)
(***************************************************************************)
EXTENDS Integers, Sequences, FiniteSets, TLC

VARIABLES
    rules,      \* Makefile.rules of the run: name -> MakefileRule
    rulesB,     \* Makefile.rules of a second, independent run (process)
    relation,   \* a PackageRelation: list of groups, each a list of entries
    cfg,        \* the configuration store and templates of the run (read-only)
    pc,         \* where Gencontrol.__call__ stands
    stack,      \* the active do_main/do_arch/do_featureset calls, innermost last
    varsHeap,   \* the vars dicts created so far; a frame holds an index
    flagsHeap,  \* the MakeFlags dicts created so far; a frame holds an index
    self_packages,  \* Gencontrol.packages, a PackagesList, in insertion order
    files,      \* the files written so far: name -> content
    trace,      \* the do_* calls made so far, with what each one saw
    stderr,     \* the warnings printed so far
    arg,        \* the argument of a call of a function on its own
    ret         \* what the calls made on arg returned or raised, in order

walkVars ==
    <<cfg, pc, stack, varsHeap, flagsHeap, self_packages, files, trace, stderr>>
callVars == <<arg, ret>>
vars == <<rules, rulesB, relation, walkVars, callVars>>

(***************************************************************************)
(* Strings and their order                                                 *)
(***************************************************************************)

\* Every token that takes part in a sort, in ascending byte order.
StrOrder ==
    << "ARCH", "Build-Profiles", "DESTDIR", "DH_OPTIONS", "Depends",
       "Description", "FEATURESET", "FLAVOUR", "KERNEL_ARCH",
       "LOCALVERSION", "Metadata", "PACKAGE_NAME", "Package",
       "Source", "Tests", "X-A", "X-b", "_", "a1", "a2", "a3", "all",
       "amd64", "arm64", "binary-arch", "binary-indep", "build-arch",
       "build-indep", "extra", "f1", "none", "p1", "p2", "r1", "real",
       "setup", "t1", "v1", "v2", "x-a" >>

Rank(s) == CHOOSE i \in 1..Len(StrOrder) : StrOrder[i] = s

\* Python str.__lt__ on two strings given as token sequences.
RECURSIVE StrLess(_, _)
StrLess(s, t) ==
    IF s = <<>> THEN t # <<>>
    ELSE IF t = <<>> THEN FALSE
    ELSE IF Head(s) = Head(t) THEN StrLess(Tail(s), Tail(t))
    ELSE Rank(Head(s)) < Rank(Head(t))

\* sorted(S) for a set of strings.
RECURSIVE Sorted(_)
Sorted(S) ==
    IF S = {} THEN <<>>
    ELSE LET m == CHOOSE x \in S : \A y \in S \ {x} : StrLess(x, y)
         IN  <<m>> \o Sorted(S \ {m})

\* sep.join(parts): parts is a sequence of strings.
RECURSIVE Join(_, _)
Join(sep, parts) ==
    IF parts = <<>> THEN <<>>
    ELSE IF Len(parts) = 1 THEN parts[1]
    ELSE parts[1] \o sep \o Join(sep, Tail(parts))

Range(f) == {f[i] : i \in DOMAIN f}

\* All orders in which a Python set with the elements S can be iterated.
IterOrders(S) ==
    {q \in [1..Cardinality(S) -> S] : Range(q) = S}

\* dict item assignment d[k] = v on a dict modelled as a function.
DictSet(d, k, v) ==
    [x \in DOMAIN d \cup {k} |-> IF x = k THEN v ELSE d[x]]

EmptyDict == [x \in {} |-> <<>>]

(***************************************************************************)
(* Makefile, MakefileRule, MakefileRuleCmds*, MakeFlags                    *)
(***************************************************************************)

\* MakeFlags.__str__: the items sorted by key, each rendered KEY='value'.
MakeFlagsStr(mf) ==
    LET keys == Sorted({<<k>> : k \in DOMAIN mf})
    IN  Join(<<" ">>,
             [i \in 1..Len(keys) |->
                 keys[i] \o <<"='">> \o mf[keys[i][1]] \o <<"'">>])

\* MakefileRule.__init__
MakefileRule(name) == [name |-> name, cmds |-> <<>>, deps |-> {}]

\* MakefileRule.add_cmds
RuleAddCmds(rule, c) == [rule EXCEPT !.cmds = Append(@, c)]

\* MakefileRule.add_deps: deps is a list; the rule keeps a set.
RuleAddDeps(rule, deps) == [rule EXCEPT !.deps = @ \cup Range(deps)]

\* self.rules.setdefault(name, MakefileRule(name)) seen as the new table.
RulesSetDefault(rs, name) ==
    IF name \in DOMAIN rs THEN rs
    ELSE [n \in DOMAIN rs \cup {name} |->
             IF n = name THEN MakefileRule(name) ELSE rs[n]]

\* MakefileRuleCmdsSimple.__init__
MakefileRuleCmdsSimple(cmds) == [kind |-> "simple", cmds |-> cmds]

\* MakefileRuleCmdsRules.__init__.  packages and packages_extra are Python
\* sets; iterP is the order in which the object packages iterates and
\* iterAll the order in which the union packages | packages_extra does.
MakefileRuleCmdsRules(target, makeflags, packages, packages_extra, iterP, iterAll) ==
    LET packages_all == packages \cup packages_extra
        mf1 == IF Cardinality(packages_all) = 1
               THEN DictSet(DictSet(makeflags, "PACKAGE_NAME", <<iterAll[1]>>),
                            "DESTDIR", <<"$(CURDIR)/debian/", iterAll[1]>>)
               ELSE DictSet(makeflags, "DESTDIR", <<"$(CURDIR)/debian/tmp">>)
        mf2 == DictSet(mf1, "DH_OPTIONS",
                       Join(<<" ">>,
                            [i \in 1..Len(iterAll) |-> <<"-p", iterAll[i]>>]))
    IN  [kind |-> "rules",
         target |-> target,
         makeflags |-> IF packages_all # {} THEN mf2 ELSE makeflags,
         packages |-> packages,
         packages_iter |-> iterP,
         packages_extra |-> packages_extra]

\* Makefile.add_cmds
MakefileAddCmds(rs, name, cmds) ==
    [RulesSetDefault(rs, name) EXCEPT
        ![name] = RuleAddCmds(@, MakefileRuleCmdsSimple(cmds))]

\* A Makefile.add_deps that forgets the placeholder rules of the deps.
MakefileAddDepsNoPlaceholder(rs, name, deps) ==
    [RulesSetDefault(rs, name) EXCEPT ![name] = RuleAddDeps(@, deps)]

\* Makefile.add_deps
MakefileAddDeps(rs, name, deps) ==
    LET r1 == [RulesSetDefault(rs, name) EXCEPT ![name] = RuleAddDeps(@, deps)]
    IN  [n \in DOMAIN r1 \cup Range(deps) |->
            IF n \in DOMAIN r1 THEN r1[n] ELSE MakefileRule(n)]

\* Makefile.add_rules
MakefileAddRules(rs, name, target, makeflags, packages, packages_extra, iterP, iterAll) ==
    [RulesSetDefault(rs, name) EXCEPT
        ![name] = RuleAddCmds(@, MakefileRuleCmdsRules(
                      target, makeflags, packages, packages_extra,
                      iterP, iterAll))]

\* MakefileRuleCmdsSimple.write: the lines written, without their "\n".
CmdsSimpleWrite(c) == [i \in 1..Len(c.cmds) |-> <<"\t">> \o c.cmds[i]]

\* MakefileRuleCmdsRules.write
CmdsRulesWrite(c) ==
    LET cmd == <<"$(MAKE) -f debian/rules.real ">> \o c.target \o <<" ">>
               \o MakeFlagsStr(c.makeflags)
    IN  IF c.packages # {}
        THEN << <<"\t", "$(call if_package, ">>
                \o Join(<<" ">>, [i \in 1..Len(c.packages_iter) |->
                                     <<c.packages_iter[i]>>])
                \o <<", ">> \o cmd \o <<")">> >>
        ELSE << <<"\t">> \o cmd >>

CmdsWrite(c) ==
    IF c.kind = "simple" THEN CmdsSimpleWrite(c) ELSE CmdsRulesWrite(c)

\* for c in self.cmds: c.write(out)
RECURSIVE CmdsListWrite(_)
CmdsListWrite(cs) ==
    IF cs = <<>> THEN <<>> ELSE CmdsWrite(Head(cs)) \o CmdsListWrite(Tail(cs))

Reverse(q) == [i \in 1..Len(q) |-> q[Len(q) + 1 - i]]

\* A stanza line whose dependencies are joined without sorted(), in an
\* iteration order of the set that is not the ascending one.
RuleLineUnsorted(rule) ==
    rule.name \o <<":">> \o Join(<<" ">>, Reverse(Sorted(rule.deps)))

\* The first line of a stanza: f'{self.name}:{" ".join(sorted(self.deps))}'
RuleLine(rule) == rule.name \o <<":">> \o Join(<<" ">>, Sorted(rule.deps))

\* MakefileRule.write
RuleWrite(rule) ==
    IF rule.cmds # <<>>
    THEN <<RuleLine(rule)>> \o CmdsListWrite(rule.cmds)
    ELSE <<RuleLine(rule)>>

MakefileHeader ==
    << <<".NOTPARALLEL:">>,
       <<".PHONY:">>,
       <<"packages_enabled := $(shell dh_listpackages)">>,
       <<"define if_package">>,
       <<"$(if $(filter $(1),$(packages_enabled)),$(2))">>,
       <<"endef">> >>

RECURSIVE RulesWrite(_, _)
RulesWrite(rs, names) ==
    IF names = <<>> THEN <<>>
    ELSE RuleWrite(rs[Head(names)]) \o RulesWrite(rs, Tail(names))

\* Makefile.write: the text written, as its sequence of lines.
MakefileWrite(rs) == MakefileHeader \o RulesWrite(rs, Sorted(DOMAIN rs))

\* Number of command blocks held by the rule table.
RECURSIVE CountCmds(_, _)
CountCmds(rs, names) ==
    IF names = {} THEN 0
    ELSE LET n == CHOOSE n \in names : TRUE
         IN  Len(rs[n].cmds) + CountCmds(rs, names \ {n})

(***************************************************************************)
(* Any sequence of Makefile calls                                          *)
(***************************************************************************)

\* Bounds of the call sequences.
MaxCmds == 2        \* command blocks registered in one run
MaxDepsLen == 2     \* length of a deps list handed to add_deps

MkRuleNames == {<<"build-arch">>, <<"setup">>}
MkDepNames == {<<"build-arch", "_", "a1">>, <<"setup">>}
MkDepLists == UNION {[1..n -> MkDepNames] : n \in 0..MaxDepsLen}
MkCmdLists == {<< <<"c1">>, <<"c2">> >>}
MkMakeFlags == {DictSet(EmptyDict, "ARCH", <<"a1">>)}
\* pairs (packages, packages_extra)
MkPackages == {<<{}, {}>>, <<{"p1"}, {"p2"}>>, <<{"p1", "p2"}, {}>>}

EmptyRules == [n \in {} |-> MakefileRule(n)]

\* No function is being called on its own.
NoCall == arg = <<>> /\ ret = <<>>

\* The walker before Gencontrol is constructed.
WalkerIdle ==
    /\ cfg = [arches |-> <<>>]
    /\ pc = "idle"
    /\ stack = <<>>
    /\ varsHeap = <<>>
    /\ flagsHeap = <<>>
    /\ self_packages = <<>>
    /\ files = EmptyDict
    /\ trace = <<>>
    /\ stderr = <<>>


InitMakefile ==
    /\ rules = EmptyRules
    /\ rulesB = EmptyRules
    /\ relation = <<>>
    /\ WalkerIdle
    /\ NoCall

\* The rule tables one more call can lead to, from the table rs of a run
\* that may register max command blocks.
AddCmdsResults(rs, max) ==
    IF CountCmds(rs, DOMAIN rs) < max
    THEN {MakefileAddCmds(rs, name, cmds) :
             name \in MkRuleNames, cmds \in MkCmdLists}
    ELSE {}

AddDepsResults(rs) ==
    {MakefileAddDeps(rs, name, deps) : name \in MkRuleNames, deps \in MkDepLists}

AddRulesResults(rs, max) ==
    IF CountCmds(rs, DOMAIN rs) < max
    THEN UNION {
           {MakefileAddRules(rs, name, <<"t1">>, makeflags, pp[1], pp[2],
                             iterP, iterAll) :
               iterP \in IterOrders(pp[1]),
               iterAll \in IterOrders(pp[1] \cup pp[2])} :
           name \in MkRuleNames, makeflags \in MkMakeFlags, pp \in MkPackages}
    ELSE {}

AddCmds ==
    /\ \E r \in AddCmdsResults(rules, MaxCmds) : rules' = r
    /\ UNCHANGED <<rulesB, relation, walkVars, callVars>>

AddDeps ==
    /\ \E r \in AddDepsResults(rules) : rules' = r
    /\ UNCHANGED <<rulesB, relation, walkVars, callVars>>

AddRules ==
    /\ \E r \in AddRulesResults(rules, MaxCmds) : rules' = r
    /\ UNCHANGED <<rulesB, relation, walkVars, callVars>>

NextMakefile == AddCmds \/ AddDeps \/ AddRules

SpecMakefile == InitMakefile /\ [][NextMakefile]_vars

\* C1: every name in some rule's dependency set is a key of the rule table.
C1_NoDanglingDependency ==
    \A n \in DOMAIN rules : rules[n].deps \subseteq DOMAIN rules

\* A dependency name that was never passed as a rule name has its own rule.
C1_Witness ==
    /\ <<"build-arch", "_", "a1">> \in DOMAIN rules
    /\ \E n \in DOMAIN rules : <<"build-arch", "_", "a1">> \in rules[n].deps
    /\ CountCmds(rules, DOMAIN rules) > 0

IsStanzaLine(l) == l = <<>> \/ l[1] # "\t"
Ascending(q) == \A i \in 1..(Len(q) - 1) : StrLess(q[i], q[i + 1])
\* The command lines of a block, without the leading tab.
BlockCommands(c) ==
    IF c.kind = "simple" THEN c.cmds
    ELSE LET cmd == <<"$(MAKE) -f debian/rules.real ">> \o c.target
                    \o <<" ">> \o MakeFlagsStr(c.makeflags)
         IN  IF c.packages = {} THEN <<cmd>>
             ELSE << <<"$(call if_package, ">>
                     \o Join(<<" ">>, [i \in 1..Len(c.packages_iter) |->
                                          <<c.packages_iter[i]>>])
                     \o <<", ">> \o cmd \o <<")">> >>
RECURSIVE AllCommands(_)
AllCommands(cs) ==
    IF cs = <<>> THEN <<>> ELSE BlockCommands(Head(cs)) \o AllCommands(Tail(cs))

\* The text written for the rule table rs is the header followed by one
\* stanza per rule in ascending name order; the stanza of rule n is the line
\* n, colon, the deduplicated sorted space-joined deps, followed by the
\* command lines of its blocks in registration order, each after a tab.
WriteShape(rs, colon) ==
    LET out == MakefileWrite(rs)
        body == SubSeq(out, Len(MakefileHeader) + 1, Len(out))
        idx == {i \in 1..Len(body) : IsStanzaLine(body[i])}
        end(i) == LET later == {j \in idx : j > i}
                  IN  IF later = {} THEN Len(body)
                      ELSE (CHOOSE j \in later : \A k \in later : j <= k) - 1
        stanzaOf(i, n) ==
            /\ Cardinality({j \in idx : j < i})
                  = Cardinality({m \in DOMAIN rs : StrLess(m, n)})
            /\ \E q \in IterOrders(rs[n].deps) :
                  /\ Ascending(q)
                  /\ body[i] = n \o colon \o Join(<<" ">>, q)
            /\ LET cmds == AllCommands(rs[n].cmds)
               IN  /\ end(i) - i = Len(cmds)
                   /\ \A k \in 1..Len(cmds) : body[i + k] = <<"\t">> \o cmds[k]
    IN  /\ SubSeq(out, 1, Len(MakefileHeader)) = MakefileHeader
        /\ Cardinality(idx) = Cardinality(DOMAIN rs)
        /\ \A i \in idx : \E n \in DOMAIN rs : stanzaOf(i, n)
        /\ (body # <<>>) => (1 \in idx)

\* C6 as stated: the header, then one stanza per rule in ascending name
\* order, each the line 'name: deps' (colon, space, sorted deduplicated
\* dependencies) followed by the tab-indented command lines of its blocks in
\* registration order.
C6_StanzaColonSpace == WriteShape(rules, <<":", " ">>)

\* C6 amended: as above, but the stanza line is 'name:deps', the dependencies
\* following the colon directly.
C6_WriteStanzas == WriteShape(rules, <<":">>)

\* Two rules, one with two dependencies and two command blocks, one with none.
C6_Witness ==
    /\ Cardinality(DOMAIN rules) >= 2
    /\ \E n \in DOMAIN rules :
          Cardinality(rules[n].deps) = 2 /\ Len(rules[n].cmds) = 2
    /\ \E n \in DOMAIN rules : rules[n].cmds = <<>>

(***************************************************************************)
(* Two runs of the generator, each with its own Makefile                   *)
(***************************************************************************)

MaxCmdsTwoRuns == 1     \* command blocks registered in each of the two runs

\* One call in one of the two runs: its table becomes r.
RunStep(run, r) ==
    IF run = "A" THEN rules' = r /\ UNCHANGED <<rulesB, relation, walkVars, callVars>>
    ELSE rulesB' = r /\ UNCHANGED <<rules, relation, walkVars, callVars>>

RunTable(run) == IF run = "A" THEN rules ELSE rulesB

TwoRunsAddCmds ==
    \E run \in {"A", "B"} :
        \E r \in AddCmdsResults(RunTable(run), MaxCmdsTwoRuns) : RunStep(run, r)

TwoRunsAddDeps ==
    \E run \in {"A", "B"} :
        \E r \in AddDepsResults(RunTable(run)) : RunStep(run, r)

TwoRunsAddRules ==
    \E run \in {"A", "B"} :
        \E r \in AddRulesResults(RunTable(run), MaxCmdsTwoRuns) : RunStep(run, r)

NextTwoRuns == TwoRunsAddCmds \/ TwoRunsAddDeps \/ TwoRunsAddRules

SpecTwoRuns == InitMakefile /\ [][NextTwoRuns]_vars

\* What a command block was registered with: for a rules block the target,
\* the package sets and the make flags other than the derived DH_OPTIONS.
BlockContent(c) ==
    IF c.kind = "simple" THEN c
    ELSE [kind |-> "rules", target |-> c.target, packages |-> c.packages,
          packages_extra |-> c.packages_extra,
          makeflags |-> [k \in DOMAIN c.makeflags \ {"DH_OPTIONS"} |->
                            c.makeflags[k]]]

\* Two rule tables accumulated from the same dependency edges and the same
\* command blocks in the same per-rule order with the same package sets.
SameContent(r1, r2) ==
    /\ DOMAIN r1 = DOMAIN r2
    /\ \A n \in DOMAIN r1 :
          /\ r1[n].deps = r2[n].deps
          /\ Len(r1[n].cmds) = Len(r2[n].cmds)
          /\ \A i \in 1..Len(r1[n].cmds) :
                BlockContent(r1[n].cmds[i]) = BlockContent(r2[n].cmds[i])

\* C5: two runs that accumulated the same content write identical text.
C5_WriteDependsOnContentOnly ==
    SameContent(rules, rulesB) => MakefileWrite(rules) = MakefileWrite(rulesB)

(***************************************************************************)
(* PackageRelationEntry, PackageRelationGroup, PackageRelation             *)
(***************************************************************************)

\* Bounds of the relations.
MaxGroups == 2      \* groups in the relation
MaxGroupLen == 2    \* entries in a group handed to merge

\* An entry: name, operator (or "None"), version (or "None"), arches (a
\* PackageArchitecture, a set) and restrictions (a PackageBuildRestrictFormula,
\* a set of lists, each a set of terms).
Entry(name, operator, version, arches, restrictions) ==
    [name |-> name, operator |-> operator, version |-> version,
     arches |-> arches, restrictions |-> restrictions]

RelFormulas == {{}, {{[profile |-> "cross", negated |-> TRUE]}}}
RelArches == {{"a1"}, {"a2"}}
RelEntries ==
    {Entry("gcc", "None", "None", a, {}) : a \in RelArches}
    \cup {Entry("gcc", ">=", "13", a, {}) : a \in RelArches}
    \cup {Entry("gcc", "None", "None", a, f) : a \in RelArches,
                                               f \in RelFormulas \ {{}}}
    \cup {Entry("clang", "None", "None", a, {}) : a \in RelArches}
RelGroups == UNION {[1..n -> RelEntries] : n \in 0..MaxGroupLen}

Min(a, b) == IF a < b THEN a ELSE b

\* zip(self, v): the pairs of the two lists up to the shorter one.
Zip(g, v) == [k \in 1..Min(Len(g), Len(v)) |-> <<g[k], v[k]>>]

\* PackageRelationGroup._merge_eq: self, or None.
GroupMergeEq(g, v) ==
    IF \A k \in DOMAIN Zip(g, v) :
          LET i == Zip(g, v)[k][1]
              j == Zip(g, v)[k][2]
          IN  /\ i.name = j.name /\ i.operator = j.operator
              /\ i.version = j.version /\ i.restrictions = j.restrictions
    THEN [isNone |-> FALSE, group |-> g]
    ELSE [isNone |-> TRUE, group |-> <<>>]

\* bool(x) of an optional list: None and the empty list are false.
Truthy(x) == ~x.isNone /\ x.group # <<>>

\* PackageRelation._merge_eq: the position of the first group i of the
\* relation for which "if i._merge_eq(v)" holds, 0 standing for None.
RelationMergeEq(rel, v) ==
    LET hits == {k \in 1..Len(rel) : Truthy(GroupMergeEq(rel[k], v))}
    IN  IF hits = {} THEN 0 ELSE CHOOSE k \in hits : \A m \in hits : k <= m

\* PackageRelation.merge: for i, j in zip(g, v): i.arches |= j.arches,
\* or append.
RelationMerge(rel, v) ==
    LET k == RelationMergeEq(rel, v)
    IN  IF k # 0 /\ rel[k] # <<>>
        THEN [rel EXCEPT ![k] =
                 [p \in 1..Len(rel[k]) |->
                     IF p <= Len(v)
                     THEN [rel[k][p] EXCEPT !.arches = @ \cup v[p].arches]
                     ELSE rel[k][p]]]
        ELSE Append(rel, v)

InitMerge ==
    /\ rules = EmptyRules
    /\ rulesB = EmptyRules
    /\ relation = <<>>
    /\ WalkerIdle
    /\ NoCall

Merge ==
    /\ \E g \in RelGroups :
          /\ Len(RelationMerge(relation, g)) <= MaxGroups
          /\ relation' = RelationMerge(relation, g)
    /\ UNCHANGED <<rules, rulesB, walkVars, callVars>>

NextMerge == Merge

SpecMerge == InitMerge /\ [][NextMerge]_vars

\* Two groups equal position by position on name, operator, version and
\* restrictions, arches ignored.
EqualButArches(h, g) ==
    /\ Len(h) = Len(g)
    /\ \A p \in 1..Len(h) :
          /\ h[p].name = g[p].name /\ h[p].operator = g[p].operator
          /\ h[p].version = g[p].version
          /\ h[p].restrictions = g[p].restrictions

\* h with the arches of g united into it, position by position.
UnitedArches(h, g) ==
    [p \in 1..Len(h) |-> [h[p] EXCEPT !.arches = @ \cup g[p].arches]]

\* C2: when the relation holds a group h equal to g but for arches, merge(g)
\* keeps the number of groups, unites the arches of g into h position by
\* position and changes no other group.
C2_MergeUnitesArches ==
    [][\A g \in RelGroups :
          (/\ relation' = RelationMerge(relation, g)
           /\ \E k \in 1..Len(relation) : EqualButArches(relation[k], g))
          => /\ Len(relation') = Len(relation)
             /\ \E k \in 1..Len(relation) :
                   /\ EqualButArches(relation[k], g)
                   /\ relation'[k] = UnitedArches(relation[k], g)
                   /\ \A m \in 1..Len(relation) \ {k} :
                         relation'[m] = relation[m]]_vars

\* C3: when no group of the relation equals g but for arches, merge(g)
\* appends g unmodified as the last group and changes no existing group.
C3_MergeAppends ==
    [][\A g \in RelGroups :
          (/\ relation' = RelationMerge(relation, g)
           /\ ~\E k \in 1..Len(relation) : EqualButArches(relation[k], g))
          => relation' = Append(relation, g)]_vars

\* C4: the relation built from the empty one by merge calls never holds two
\* groups that are equal but for arches.
C4_NoDuplicateGroup ==
    \A k, m \in 1..Len(relation) :
        k # m => ~EqualButArches(relation[k], relation[m])

(***************************************************************************)
(* Gencontrol: the configuration and templates a run is started with       *)
(***************************************************************************)

Arches == {"a1", "a2"}
Featuresets == {"none", "f1"}

\* config['base', ]['arches']
CfgArches == {<<>>, <<"a1">>, <<"a2", "a1">>}
\* config['base', ]['featuresets']
CfgFeaturesets == {<<"none", "f1">>}
\* config['base', arch].get('featuresets', [])
CfgArchFeaturesets ==
    {[a \in Arches |-> IF a = "a1" THEN <<"f1", "none">> ELSE <<"none">>],
     [a \in Arches |-> IF a = "a1" THEN <<"none">> ELSE <<>>]}
\* config['base', arch, featureset]['flavours']
CfgFlavours ==
    {[af \in Arches \X Featuresets |-> <<"v1">>],
     [af \in Arches \X Featuresets |->
         IF af = <<"a1", "none">> THEN <<"v2", "v1">>
         ELSE IF af = <<"a1", "f1">> THEN <<"v2">> ELSE <<"v1">>]}
\* The (scope, featureset) pairs with
\* config.merge('base', scope, featureset).get('enabled', True) false.
CfgDisabled == {{}, {<<"None", "f1">>}, {<<"a1", "f1">>}}
\* What lies outside the configuration files: the architectures for which
\* dpkg-architecture exits with an error, and those for which
\* config.merge('build', arch).get('signed-code') is set and signing is not
\* disabled.
CfgExternal ==
    {[gnuTypeFails |-> {}, signed |-> {}],
     [gnuTypeFails |-> {"a1"}, signed |-> {"a2"}]}

\* A package as a template gives it: its name, its Architecture field, its
\* meta 'rules-target' ("None" when it has none) and its Build-Depends
\* relation (<<>> when it has none).
Template(name, arch, target, bd) ==
    [Package |-> name, Architecture |-> arch, target |-> target,
     BuildDepends |-> bd]

P1 == Template("p1", {"a1"}, "None", <<>>)
P1BuildDepends ==
    Template("p1", {"a1"}, "None", << <<Entry("gcc", "None", "None", {}, {})>> >>)
P2 == Template("p2", {"a1", "a3"}, "None", <<>>)
P3 == Template("p3", {"all"}, "t1", <<>>)
P4 == Template("p4", {}, "t1", <<>>)
P5 == Template("p5", {}, "None", <<>>)
P5Target == Template("p5", {}, "t1", <<>>)

\* What an overriding do_main_packages / do_flavour_packages does: calls of
\* merge_packages_rules(process_packages(templates, vars), rule, makeflags,
\* arch=..., check_packages=...), the rule being the branch's id.
HookCall(templates, check_packages) ==
    [templates |-> templates, check_packages |-> check_packages]

\* The templates of a run and the hooks of its subclass:
\*   source       templates["control.source"][0]['Source'], "None" if absent
\*   extra        templates.get("control.extra", None)
\*   hookMain     the calls do_main_packages makes
\*   hookFlavour  the calls do_flavour_packages makes
CfgTemplates ==
    {[source |-> "None",
      extra |-> [present |-> FALSE, packages |-> <<>>],
      hookMain |-> <<>>, hookFlavour |-> <<>>],
     [source |-> "linux",
      extra |-> [present |-> TRUE, packages |-> <<P1>>],
      hookMain |-> <<HookCall(<<P3>>, TRUE)>>,
      hookFlavour |-> <<HookCall(<<P4, P5>>, TRUE)>>],
     [source |-> "None",
      extra |-> [present |-> TRUE, packages |-> <<P1BuildDepends, P2>>],
      hookMain |-> <<HookCall(<<P3>>, TRUE)>>,
      hookFlavour |-> <<HookCall(<<P4>>, TRUE), HookCall(<<P5Target>>, FALSE)>>],
     [source |-> "linux",
      extra |-> [present |-> TRUE, packages |-> <<P1, P2>>],
      hookMain |-> <<>>, hookFlavour |-> <<>>]}

Configs ==
    {[arches |-> a, featuresets |-> f, archFeaturesets |-> af,
      flavours |-> fl, disabled |-> d, source |-> t.source,
      extra |-> t.extra, hookMain |-> t.hookMain,
      hookFlavour |-> t.hookFlavour,
      gnuTypeFails |-> x.gnuTypeFails, signed |-> x.signed] :
        a \in CfgArches, f \in CfgFeaturesets, af \in CfgArchFeaturesets,
        fl \in CfgFlavours, d \in CfgDisabled, t \in CfgTemplates,
        x \in CfgExternal}

\* The list q without its elements outside the set keep, in q's order.
RECURSIVE SelectList(_, _)
SelectList(q, keep) ==
    IF q = <<>> THEN <<>>
    ELSE IF Head(q) \in keep THEN <<Head(q)>> \o SelectList(Tail(q), keep)
    ELSE SelectList(Tail(q), keep)

\* iter_featuresets(config)
IterFeaturesets(c) ==
    SelectList(c.featuresets, {f \in Featuresets : <<"None", f>> \notin c.disabled})

\* iter_arches(config)
IterArches(c) == c.arches

\* An iter_arch_featuresets that does not look at 'enabled'.
IterArchFeaturesetsAll(c, arch) == c.archFeaturesets[arch]

\* iter_arch_featuresets(config, arch)
IterArchFeaturesets(c, arch) ==
    SelectList(c.archFeaturesets[arch],
               {f \in Featuresets : <<arch, f>> \notin c.disabled})

\* iter_flavours(config, arch, featureset)
IterFlavours(c, arch, featureset) == c.flavours[<<arch, featureset>>]

(***************************************************************************)
(* Gencontrol: the walk over feature-sets, architectures and flavours      *)
(***************************************************************************)

makefile_targets == <<"binary-arch", "build-arch", "setup">>
makefile_targets_indep == <<"binary-indep", "build-indep", "setup">>

\* '_'.join(parts), the parts being single tokens
JoinUnderscore(parts) ==
    Join(<<"_">>, [k \in 1..Len(parts) |-> <<parts[k]>>])

\* A list of add_deps calls <<name, deps>> applied in order.
RECURSIVE ApplyAddDeps(_, _)
ApplyAddDeps(rs, calls) ==
    IF calls = <<>> THEN rs
    ELSE ApplyAddDeps(MakefileAddDeps(rs, Head(calls)[1], Head(calls)[2]),
                      Tail(calls))

\* The add_deps calls of one round of a "for i in ..." loop, and of the loop.
IndepFeaturesetCalls(i, featureset) ==
    LET target1 == <<i>>
        target2 == JoinUnderscore(<<i, featureset>>)
        target3 == target2 \o <<"_", "real">>
        target4 == JoinUnderscore(<<i, "real">>)
    IN  << <<target1, <<target2>>>>, <<target2, <<target3>>>>,
           <<target1, <<target4>>>> >>

ArchCalls(i, arch) ==
    LET target1 == <<i>>
        target2 == JoinUnderscore(<<i, arch>>)
        target3 == target2 \o <<"_", "real">>
    IN  << <<target1, <<target2>>>>, <<target2, <<target3>>>> >>

\* The calls of do_featureset_makefile hanging the feature-set's target on
\* the top-level target instead of the architecture's.
FeaturesetCallsFromTop(i, arch, featureset) ==
    LET target1 == JoinUnderscore(<<i, arch>>)
        target2 == target1 \o <<"_", featureset>>
        target3 == target2 \o <<"_", "real">>
    IN  << <<<<i>>, <<target2>>>>, <<target2, <<target3>>>> >>

FeaturesetCalls(i, arch, featureset) ==
    LET target1 == JoinUnderscore(<<i, arch>>)
        target2 == target1 \o <<"_", featureset>>
        target3 == target2 \o <<"_", "real">>
    IN  << <<target1, <<target2>>>>, <<target2, <<target3>>>> >>

\* The calls of do_flavour_makefile with one more, from the flavour's
\* target back to the feature-set's.
FlavourCallsBackEdge(i, arch, featureset, flavour) ==
    LET target1 == JoinUnderscore(<<i, arch, featureset>>)
        target2 == target1 \o <<"_", flavour>>
        target3 == target2 \o <<"_", "real">>
    IN  << <<target1, <<target2>>>>, <<target2, <<target3>>>>,
           <<target2, <<target1>>>> >>

FlavourCalls(i, arch, featureset, flavour) ==
    LET target1 == JoinUnderscore(<<i, arch, featureset>>)
        target2 == target1 \o <<"_", flavour>>
        target3 == target2 \o <<"_", "real">>
    IN  << <<target1, <<target2>>>>, <<target2, <<target3>>>> >>

\* Gencontrol.do_main_makefile
DoMainMakefile(rs, makeflags) ==
    MakefileAddRules(
        MakefileAddRules(rs, <<"build-indep">>, <<"build-indep">>, makeflags,
                         {}, {}, <<>>, <<>>),
        <<"binary-indep">>, <<"binary-indep">>, makeflags, {}, {}, <<>>, <<>>)

\* Gencontrol.do_indep_featureset_makefile, its effect on the rule table
DoIndepFeaturesetMakefile(rs, featureset) ==
    ApplyAddDeps(rs,
        IndepFeaturesetCalls(makefile_targets_indep[1], featureset)
        \o IndepFeaturesetCalls(makefile_targets_indep[2], featureset)
        \o IndepFeaturesetCalls(makefile_targets_indep[3], featureset))

\* Gencontrol.do_arch_makefile, its effect on the rule table
DoArchMakefile(rs, arch) ==
    ApplyAddDeps(rs,
        ArchCalls(makefile_targets[1], arch)
        \o ArchCalls(makefile_targets[2], arch)
        \o ArchCalls(makefile_targets[3], arch))

\* Gencontrol.do_featureset_makefile, its effect on the rule table
DoFeaturesetMakefile(rs, arch, featureset) ==
    ApplyAddDeps(rs,
        FeaturesetCalls(makefile_targets[1], arch, featureset)
        \o FeaturesetCalls(makefile_targets[2], arch, featureset)
        \o FeaturesetCalls(makefile_targets[3], arch, featureset))

\* Gencontrol.do_flavour_makefile, its effect on the rule table
DoFlavourMakefile(rs, arch, featureset, flavour) ==
    ApplyAddDeps(rs,
        FlavourCalls(makefile_targets[1], arch, featureset, flavour)
        \o FlavourCalls(makefile_targets[2], arch, featureset, flavour)
        \o FlavourCalls(makefile_targets[3], arch, featureset, flavour))

(***************************************************************************)
(* PackagesList and merge_packages_rules                                   *)
(***************************************************************************)

\* The position of key in the PackagesList pl, 0 when absent.
PkgIndex(pl, key) ==
    IF \E k \in 1..Len(pl) : pl[k].key = key
    THEN CHOOSE k \in 1..Len(pl) : pl[k].key = key
    ELSE 0

\* OrderedDict.__setitem__: a new key goes last, a known key keeps its place.
PackagesSetItem(pl, key, package) ==
    IF PkgIndex(pl, key) = 0 THEN Append(pl, package)
    ELSE [pl EXCEPT ![PkgIndex(pl, key)] = package]

\* A setdefault that stores the package given, as append does.
PackagesSetDefaultAppend(pl, package) ==
    PackagesSetItem(pl, package.key, package)

\* PackagesList.setdefault
PackagesSetDefault(pl, package) ==
    IF PkgIndex(pl, package.key) = 0 THEN Append(pl, package) ELSE pl

\* PackagesList.extend
RECURSIVE PackagesExtend(_, _)
PackagesExtend(pl, new) ==
    IF new = <<>> THEN pl
    ELSE PackagesExtend(PackagesSetItem(pl, Head(new).key, Head(new)), Tail(new))

\* dict.get(key, default) on a dict modelled as a function
DictGet(d, k, default) == IF k \in DOMAIN d THEN d[k] ELSE default

\* Gencontrol.process_package: a new entry with a copy of the template's
\* meta and its fields after substitute().  The templates of the model hold
\* no @name@ reference, so substitute() leaves each value as it is and vars
\* is not read.  The entry is held as its key in the PackagesList, its
\* fields and its meta map.
ProcessPackage(in_entry, vars_) ==
    [key |-> in_entry.Package,
     fields |-> LET f == DictSet(DictSet(EmptyDict, "Package", in_entry.Package),
                                 "Architecture", in_entry.Architecture)
                IN  IF in_entry.BuildDepends = <<>> THEN f
                    ELSE DictSet(f, "Build-Depends", in_entry.BuildDepends),
     meta |-> IF in_entry.target = "None" THEN EmptyDict
              ELSE DictSet(EmptyDict, "rules-target", in_entry.target)]

\* Gencontrol.process_packages
ProcessPackages(entries, vars_) ==
    [k \in 1..Len(entries) |-> ProcessPackage(entries[k], vars_)]

\* rules[rule] = makeflags on the dict meta['rules-rules'], kept as the list
\* of its items in insertion order.
RulesRulesSet(rr, rule, makeflags) ==
    IF \E k \in 1..Len(rr) : rr[k].rule = rule
    THEN [k \in 1..Len(rr) |->
             IF rr[k].rule = rule THEN [rule |-> rule, makeflags |-> makeflags]
             ELSE rr[k]]
    ELSE Append(rr, [rule |-> rule, makeflags |-> makeflags])

\* One round of the loop of merge_packages_rules.  makeflags is the index of
\* the MakeFlags object, arch is "None" or an architecture.
MergePackageRules(pl, package, rule, makeflags, arch, check_packages) ==
    LET pl1 == PackagesSetDefault(pl, package)
        k == PkgIndex(pl1, package.key)
        m1 == DictSet(pl1[k].meta, "rules-rules",
                      RulesRulesSet(DictGet(pl1[k].meta, "rules-rules", <<>>),
                                    rule, makeflags))
        m2 == IF arch # "None"
              THEN DictSet(m1, "architectures",
                           DictGet(m1, "architectures", {}) \cup {arch})
              ELSE m1
        m3 == DictSet(m2, "rules-check-packages", check_packages)
    IN  [pl1 EXCEPT ![k].meta = m3]

\* Gencontrol.merge_packages_rules
RECURSIVE MergePackagesRules(_, _, _, _, _, _)
MergePackagesRules(pl, pkgs, rule, makeflags, arch, check_packages) ==
    IF pkgs = <<>> THEN pl
    ELSE MergePackagesRules(
             MergePackageRules(pl, Head(pkgs), rule, makeflags, arch,
                               check_packages),
             Tail(pkgs), rule, makeflags, arch, check_packages)

(***************************************************************************)
(* Gencontrol.__call__: the steps of one run                               *)
(***************************************************************************)

\* dict.copy() on the vars dict at index ref: a new dict with the same
\* items, at a new index.
VarsCopy(heap, ref) ==
    [heap |-> Append(heap, heap[ref]), ref |-> Len(heap) + 1]

\* A MakeFlags.copy that hands back the object it was called on.
MakeFlagsCopyAlias(heap, ref) == [heap |-> heap, ref |-> ref]

\* MakeFlags.copy
MakeFlagsCopy(heap, ref) ==
    [heap |-> Append(heap, heap[ref]), ref |-> Len(heap) + 1]

\* One active call of do_main, do_arch or do_featureset: its arguments and
\* what is left of the loops of its *_recurse.
Frame(level, arch, featureset, vars_, makeflags, todoIndep, todo) ==
    [level |-> level, arch |-> arch, featureset |-> featureset,
     vars |-> vars_, makeflags |-> makeflags,
     todoIndep |-> todoIndep, todo |-> todo]

\* A do_* call as it is logged: its arguments, the vars and makeflags it was
\* handed and the two as it leaves them before it recurses.
Event(op, arch, featureset, flavour, vars_in, makeflags_in, vars_, makeflags) ==
    [op |-> op, arch |-> arch, featureset |-> featureset,
     flavour |-> flavour, vars_in |-> vars_in, makeflags_in |-> makeflags_in,
     vars |-> vars_, makeflags |-> makeflags]

\* The calls of merge_packages_rules an overriding *_packages hook makes.
RECURSIVE HookCalls(_, _, _, _, _, _)
HookCalls(pl, calls, vars_, rule, makeflags, arch) ==
    IF calls = <<>> THEN pl
    ELSE HookCalls(
             MergePackagesRules(pl,
                                ProcessPackages(Head(calls).templates, vars_),
                                rule, makeflags, arch,
                                Head(calls).check_packages),
             Tail(calls), vars_, rule, makeflags, arch)

\* vars['localversion'] as do_indep_featureset and do_featureset set it
FeaturesetLocalversion(featureset) ==
    IF featureset # "none" THEN <<"-", featureset>> ELSE <<>>

\* Gencontrol.do_flavour_setup
DoFlavourSetup(vars_, makeflags) ==
    LET mf1 == IF "kernel-arch" \in DOMAIN vars_
               THEN DictSet(makeflags, "KERNEL_ARCH", vars_["kernel-arch"])
               ELSE makeflags
    IN  IF "localversion" \in DOMAIN vars_
        THEN DictSet(mf1, "LOCALVERSION", vars_["localversion"])
        ELSE mf1

InitWalk ==
    /\ cfg \in Configs
    /\ pc = "source"
    /\ stack = <<>>
    /\ varsHeap = <<EmptyDict>>
    /\ flagsHeap = <<>>
    /\ self_packages = <<>>
    /\ files = EmptyDict
    /\ trace = <<>>
    /\ stderr = <<>>
    /\ rules = EmptyRules
    /\ rulesB = EmptyRules
    /\ relation = <<>>
    /\ NoCall

\* self.vars is the dict at index 1 of varsHeap.
SelfVars == 1

\* self.changelog[0].source
ChangelogSource == "linux-changelog"

\* Gencontrol.do_source
DoSource ==
    /\ pc = "source"
    /\ LET source == DictSet(EmptyDict, "Source",
                             IF cfg.source = "None" THEN ChangelogSource
                             ELSE cfg.source)
       IN  self_packages' =
               PackagesSetItem(self_packages, "source",
                               [key |-> "source", fields |-> source,
                                meta |-> EmptyDict])
    /\ pc' = "main"
    /\ UNCHANGED <<cfg, stack, varsHeap, flagsHeap, files, trace,
                   rules, rulesB, relation, callVars, stderr>>

\* Gencontrol.do_main up to the loops of do_main_recurse
DoMain ==
    /\ pc = "main"
    /\ LET vc == VarsCopy(varsHeap, SelfVars)
           mf == Len(flagsHeap) + 1
       IN  /\ varsHeap' = vc.heap
           /\ flagsHeap' = Append(flagsHeap, EmptyDict)
           /\ rules' = DoMainMakefile(rules, EmptyDict)
           /\ self_packages' = HookCalls(self_packages, cfg.hookMain,
                                         vc.heap[vc.ref], <<"real">>, mf,
                                         "None")
           /\ stack' = <<Frame("main", "None", "None", vc.ref, mf,
                               IterFeaturesets(cfg), IterArches(cfg))>>
           /\ trace' = Append(trace,
                              Event("do_main", "None", "None", "None",
                                    varsHeap[SelfVars], EmptyDict,
                                    vc.heap[vc.ref], EmptyDict))
    /\ pc' = "walk"
    /\ UNCHANGED <<cfg, files, rulesB, relation, callVars, stderr>>

Top == stack[Len(stack)]

\* The stack with its innermost frame replaced by f and then g pushed.
Push(f, g) == Append([stack EXCEPT ![Len(stack)] = f], g)

\* One round of the first loop of do_main_recurse: Gencontrol.do_indep_featureset
DoIndepFeatureset ==
    /\ pc = "walk"
    /\ Top.level = "main"
    /\ Top.todoIndep # <<>>
    /\ LET featureset == Head(Top.todoIndep)
           vc == VarsCopy(varsHeap, Top.vars)
           mc == MakeFlagsCopy(flagsHeap, Top.makeflags)
           vars1 == DictSet(vc.heap[vc.ref], "localversion",
                            FeaturesetLocalversion(featureset))
           mf1 == DictSet(mc.heap[mc.ref], "FEATURESET", <<featureset>>)
       IN  /\ varsHeap' = [vc.heap EXCEPT ![vc.ref] = vars1]
           /\ flagsHeap' = [mc.heap EXCEPT ![mc.ref] = mf1]
           /\ rules' = DoIndepFeaturesetMakefile(rules, featureset)
           /\ stack' = [stack EXCEPT
                           ![Len(stack)].todoIndep = Tail(Top.todoIndep)]
           /\ trace' = Append(trace,
                              Event("do_indep_featureset", "None", featureset,
                                    "None", vc.heap[vc.ref], mc.heap[mc.ref],
                                    vars1, mf1))
    /\ UNCHANGED <<cfg, pc, self_packages, files, rulesB, relation, callVars, stderr>>

\* The GNU type dpkg-architecture prints for arch.
GnuType(arch) == <<arch, "-linux-gnu">>

\* do_arch_setup of debian/bin/gencontrol.py: vars gets 'gnu-type-package'
\* unless dpkg-architecture fails with CalledProcessError.
DoArchSetup(vars_, arch) ==
    IF arch \in cfg.gnuTypeFails THEN vars_
    ELSE DictSet(vars_, "gnu-type-package", GnuType(arch))

\* The files of the bundle signed-<arch>.
SignedLintianOverrides(arch) ==
    IF arch = "a1" THEN "debian/generated.signed-a1/source/lintian-overrides"
    ELSE IF arch = "a2" THEN "debian/generated.signed-a2/source/lintian-overrides"
    ELSE "debian/generated.signed-a3/source/lintian-overrides"

SignedChangelogHead(arch) ==
    IF arch = "a1" THEN "debian/generated.signed-a1/changelog.head"
    ELSE IF arch = "a2" THEN "debian/generated.signed-a2/changelog.head"
    ELSE "debian/generated.signed-a3/changelog.head"

\* do_arch_packages of debian/bin/gencontrol.py: with signed code it opens
\* two files of the bundle signed-<arch> for writing and writes them.
DoArchPackages(fs, arch) ==
    IF arch \in cfg.signed
    THEN DictSet(DictSet(fs, SignedLintianOverrides(arch),
                         <<"signed.source.lintian-overrides">>),
                 SignedChangelogHead(arch),
                 <<"linux-signed-", arch, " (@signedtemplate_sourceversion@)">>)
    ELSE fs

\* One round of the second loop of do_main_recurse: Gencontrol.do_arch up to
\* the loop of do_arch_recurse
DoArch ==
    /\ pc = "walk"
    /\ Top.level = "main"
    /\ Top.todoIndep = <<>>
    /\ Top.todo # <<>>
    /\ LET arch == Head(Top.todo)
           vc == VarsCopy(varsHeap, Top.vars)
           mc == MakeFlagsCopy(flagsHeap, Top.makeflags)
           vars1 == DoArchSetup(DictSet(vc.heap[vc.ref], "arch", <<arch>>),
                                arch)
           mf1 == DictSet(mc.heap[mc.ref], "ARCH", <<arch>>)
       IN  /\ varsHeap' = [vc.heap EXCEPT ![vc.ref] = vars1]
           /\ flagsHeap' = [mc.heap EXCEPT ![mc.ref] = mf1]
           /\ stderr' = IF arch \in cfg.gnuTypeFails
                        THEN Append(stderr, <<"W: Unable to get GNU type for ", arch>>)
                        ELSE stderr
           /\ rules' = DoArchMakefile(rules, arch)
           /\ files' = DoArchPackages(files, arch)
           /\ stack' = Push([Top EXCEPT !.todo = Tail(Top.todo)],
                            Frame("arch", arch, "None", vc.ref, mc.ref, <<>>,
                                  IterArchFeaturesets(cfg, arch)))
           /\ trace' = Append(trace,
                              Event("do_arch", arch, "None", "None",
                                    vc.heap[vc.ref], mc.heap[mc.ref],
                                    vars1, mf1))
    /\ UNCHANGED <<cfg, pc, self_packages, rulesB, relation, callVars>>

\* One round of the loop of do_arch_recurse: Gencontrol.do_featureset up to
\* the loop of do_featureset_recurse
DoFeatureset ==
    /\ pc = "walk"
    /\ Top.level = "arch"
    /\ Top.todo # <<>>
    /\ LET arch == Top.arch
           featureset == Head(Top.todo)
           vc == VarsCopy(varsHeap, Top.vars)
           mc == MakeFlagsCopy(flagsHeap, Top.makeflags)
           vars1 == DictSet(vc.heap[vc.ref], "localversion",
                            FeaturesetLocalversion(featureset))
           mf1 == DictSet(mc.heap[mc.ref], "FEATURESET", <<featureset>>)
       IN  /\ varsHeap' = [vc.heap EXCEPT ![vc.ref] = vars1]
           /\ flagsHeap' = [mc.heap EXCEPT ![mc.ref] = mf1]
           /\ rules' = DoFeaturesetMakefile(rules, arch, featureset)
           /\ stack' = Push([Top EXCEPT !.todo = Tail(Top.todo)],
                            Frame("featureset", arch, featureset, vc.ref,
                                  mc.ref, <<>>,
                                  IterFlavours(cfg, arch, featureset)))
           /\ trace' = Append(trace,
                              Event("do_featureset", arch, featureset, "None",
                                    vc.heap[vc.ref], mc.heap[mc.ref],
                                    vars1, mf1))
    /\ UNCHANGED <<cfg, pc, self_packages, files, rulesB, relation, callVars, stderr>>

\* One round of the loop of do_featureset_recurse: Gencontrol.do_flavour.
\* do_flavour_packages of debian/bin/gencontrol.py reads
\* vars['gnu-type-package'] after its first package: KeyError ends the run.
DoFlavour ==
    /\ pc = "walk"
    /\ Top.level = "featureset"
    /\ Top.todo # <<>>
    /\ LET arch == Top.arch
           featureset == Top.featureset
           flavour == Head(Top.todo)
           vc == VarsCopy(varsHeap, Top.vars)
           mc == MakeFlagsCopy(flagsHeap, Top.makeflags)
           vars1 == DictSet(vc.heap[vc.ref], "localversion",
                            vc.heap[vc.ref]["localversion"] \o <<"-", flavour>>)
           mf1 == DictSet(DoFlavourSetup(vars1, mc.heap[mc.ref]),
                          "FLAVOUR", <<flavour>>)
           raised == "gnu-type-package" \notin DOMAIN vars1
           calls == IF raised /\ cfg.hookFlavour # <<>>
                    THEN <<Head(cfg.hookFlavour)>> ELSE cfg.hookFlavour
       IN  /\ varsHeap' = [vc.heap EXCEPT ![vc.ref] = vars1]
           /\ flagsHeap' = [mc.heap EXCEPT ![mc.ref] = mf1]
           /\ rules' = DoFlavourMakefile(rules, arch, featureset, flavour)
           /\ self_packages' =
                  HookCalls(self_packages, calls, vars1,
                            JoinUnderscore(<<arch, featureset, flavour, "real">>),
                            mc.ref, arch)
           /\ stack' = [stack EXCEPT ![Len(stack)].todo = Tail(Top.todo)]
           /\ trace' = Append(trace,
                              Event("do_flavour", arch, featureset, flavour,
                                    vc.heap[vc.ref], mc.heap[mc.ref],
                                    vars1, mf1))
           /\ pc' = IF raised THEN "KeyError" ELSE "walk"
    /\ UNCHANGED <<cfg, files, rulesB, relation, callVars, stderr>>

\* The loops of a *_recurse are exhausted: the call returns to its caller,
\* do_main to __call__.
Return ==
    /\ pc = "walk"
    /\ Top.todoIndep = <<>>
    /\ Top.todo = <<>>
    /\ stack' = SubSeq(stack, 1, Len(stack) - 1)
    /\ pc' = IF Len(stack) = 1 THEN "extra" ELSE "walk"
    /\ UNCHANGED <<cfg, varsHeap, flagsHeap, self_packages, files, trace,
                   rules, rulesB, relation, callVars, stderr>>

\* The packages of the list pkgs whose Architecture holds arch, in order.
RECURSIVE ExtraArch(_, _)
ExtraArch(pkgs, arch) ==
    IF pkgs = <<>> THEN <<>>
    ELSE IF arch \in Head(pkgs).fields["Architecture"]
         THEN <<Head(pkgs)>> \o ExtraArch(Tail(pkgs), arch)
         ELSE ExtraArch(Tail(pkgs), arch)

\* The body of the last loop of do_extra, for the architectures left.
RECURSIVE DoExtraRules(_, _, _)
DoExtraRules(rs, packages_extra, arches) ==
    IF arches = <<>> THEN rs
    ELSE LET arch == Head(arches)[1]
             mine == ExtraArch(packages_extra, arch)
             cmds == [k \in 1..Len(mine) |->
                         <<"$(MAKE) -f debian/rules.real install-dummy ARCH='",
                           arch, "' DH_OPTIONS='-p", mine[k].fields["Package"],
                           "'">>]
             r1 == MakefileAddDeps(rs, <<"binary-arch", "_", arch>>,
                                   << <<"binary-arch", "_", arch, "_", "extra">> >>)
         IN  DoExtraRules(
                 MakefileAddCmds(r1, <<"binary-arch", "_", arch, "_", "extra">>,
                                 cmds),
                 packages_extra, Tail(arches))

\* Gencontrol.do_extra
DoExtra ==
    /\ pc = "extra"
    /\ IF ~cfg.extra.present
       THEN UNCHANGED <<self_packages, rules>>
       ELSE LET packages_extra == ProcessPackages(cfg.extra.packages,
                                                  varsHeap[SelfVars])
                extra_arches ==
                    UNION {packages_extra[k].fields["Architecture"] :
                              k \in 1..Len(packages_extra)}
            IN  /\ self_packages' = PackagesExtend(self_packages, packages_extra)
                /\ rules' = DoExtraRules(rules, packages_extra,
                                         Sorted({<<a>> : a \in extra_arches}))
    /\ pc' = "merge"
    /\ UNCHANGED <<cfg, stack, varsHeap, flagsHeap, files, trace,
                   rulesB, relation, callVars, stderr>>

\* The loop over the items of dep in merge_build_depends.  An item that
\* is given sorted(package["Architecture"]) holds a list from then on, no
\* longer a PackageArchitecture: arches keeps the elements and arches_list
\* tells that they are held by a list.
BuildDependsItems(dep, package) ==
    [g \in 1..Len(dep) |->
        [i \in 1..Len(dep[g]) |->
            LET item == dep[g][i]
                given == package["Architecture"] # {"all"} /\ item.arches = {}
                r == IF DictGet(package, "Build-Profiles", {}) # {}
                        /\ item.restrictions = {}
                     THEN package["Build-Profiles"] ELSE item.restrictions
            IN  [name |-> item.name, operator |-> item.operator,
                 version |-> item.version,
                 arches |-> IF given THEN package["Architecture"]
                            ELSE item.arches,
                 restrictions |-> r,
                 arches_list |-> given]]]

\* A dict without the key k
DictDel(d, k) == [x \in DOMAIN d \ {k} |-> d[x]]

\* The loop of merge_build_depends from the k-th package on.
RECURSIVE MergeBuildDependsFrom(_, _)
MergeBuildDependsFrom(pl, k) ==
    IF k > Len(pl) THEN pl
    ELSE LET package == pl[k].fields
             dep == DictGet(package, "Build-Depends", <<>>)
             s == PkgIndex(pl, "source")
             dep_type == IF package["Architecture"] = {"all"}
                         THEN "Build-Depends-Indep" ELSE "Build-Depends-Arch"
         IN  IF pl[k].key = "source" \/ dep = <<>>
             THEN MergeBuildDependsFrom(pl, k + 1)
             ELSE MergeBuildDependsFrom(
                      [pl EXCEPT
                          ![k].fields = DictDel(package, "Build-Depends"),
                          ![s].fields =
                              DictSet(@, dep_type,
                                      DictGet(@, dep_type, <<>>)
                                      \o BuildDependsItems(dep, package))],
                      k + 1)

\* Gencontrol.merge_build_depends
MergeBuildDepends ==
    /\ pc = "merge"
    /\ self_packages' = MergeBuildDependsFrom(self_packages, 1)
    /\ pc' = "extract"
    /\ UNCHANGED <<cfg, stack, varsHeap, flagsHeap, files, trace,
                   rules, rulesB, relation, callVars, stderr>>

\* The position of the key (name, rule) in the dict targets, 0 when absent.
TargetIndex(targets, name, rule) ==
    IF \E k \in 1..Len(targets) : targets[k].name = name /\ targets[k].rule = rule
    THEN CHOOSE k \in 1..Len(targets) :
             targets[k].name = name /\ targets[k].rule = rule
    ELSE 0

\* The body of the loop "for rule, makeflags in rules.items()" of
\* extract_makefile, for the items rr left: targets is the dict built so far,
\* as the list of its values in insertion order, each with its key.
RECURSIVE ExtractPackageTargets(_, _, _, _, _, _)
ExtractPackageTargets(targets, rr, name, target_name, check_packages, arches) ==
    IF rr = <<>> THEN targets
    ELSE LET rule == Head(rr).rule
             t0 == IF TargetIndex(targets, target_name, rule) = 0
                   THEN Append(targets,
                               [name |-> target_name, rule |-> rule,
                                packages |-> {}, packages_extra |-> {},
                                makeflags |-> 0, type |-> "None"])
                   ELSE targets
             k == TargetIndex(t0, target_name, rule)
             t1 == [t0 EXCEPT
                       ![k].packages =
                           IF check_packages THEN @ \cup {name} ELSE @,
                       ![k].packages_extra =
                           IF check_packages THEN @ ELSE @ \cup {name},
                       ![k].makeflags = Head(rr).makeflags,
                       ![k].type =
                           IF arches = {"all"} THEN "indep" ELSE "arch"]
         IN  ExtractPackageTargets(t1, Tail(rr), name, target_name,
                                   check_packages, arches)

\* The first loop of extract_makefile from the k-th package on: the
\* PackagesList with the Architecture fields it assigns, and targets.
RECURSIVE ExtractTargets(_, _, _)
ExtractTargets(pl, targets, k) ==
    IF k > Len(pl) THEN [packages |-> pl, targets |-> targets]
    ELSE LET package == pl[k]
             target_name == DictGet(package.meta, "rules-target", "None")
             rr == DictGet(package.meta, "rules-rules", <<>>)
             meta_arches == DictGet(package.meta, "architectures", {})
             arches == IF meta_arches # {} THEN meta_arches
                       ELSE DictGet(package.fields, "Architecture", "None")
             pl1 == IF meta_arches # {}
                    THEN [pl EXCEPT ![k].fields =
                             DictSet(@, "Architecture", meta_arches)]
                    ELSE pl
         IN  IF rr = <<>> THEN ExtractTargets(pl, targets, k + 1)
             ELSE IF target_name = "None" THEN ExtractTargets(pl1, targets, k + 1)
             ELSE ExtractTargets(
                      pl1,
                      ExtractPackageTargets(
                          targets, rr, package.key, target_name,
                          package.meta["rules-check-packages"], arches),
                      k + 1)

\* The body of the second loop of extract_makefile for one target, the sets
\* packages and packages | packages_extra iterating in the orders iterP and
\* iterAll.  heap holds the MakeFlags objects.
ExtractTargetRules(rs, target, heap, iterP, iterAll) ==
    LET name == target.name
        rule == target.rule
        makeflags == heap[target.makeflags]
        build == <<IF target.type = "indep" THEN "build-indep"
                   ELSE "build-arch", "_">> \o rule
        binary == <<IF target.type = "indep" THEN "binary-indep"
                    ELSE "binary-arch", "_">> \o rule
        r1 == MakefileAddDeps(rs, build, <<build \o <<"_", name>>>>)
        r2 == MakefileAddDeps(r1, binary, <<binary \o <<"_", name>>>>)
        r3 == MakefileAddRules(r2, build \o <<"_", name>>, <<"build_", name>>,
                               makeflags, target.packages,
                               target.packages_extra, iterP, iterAll)
    IN  MakefileAddRules(r3, binary \o <<"_", name>>, <<"binary_", name>>,
                         makeflags, target.packages, target.packages_extra,
                         iterP, iterAll)

\* The rule tables the second loop of extract_makefile can leave, one for
\* each way the sets of the targets can iterate.
RECURSIVE ExtractRulesResults(_, _, _)
ExtractRulesResults(rs, targets, heap) ==
    IF targets = <<>> THEN {rs}
    ELSE UNION {ExtractRulesResults(
                    ExtractTargetRules(rs, Head(targets), heap, iterP, iterAll),
                    Tail(targets), heap) :
                  iterP \in IterOrders(Head(targets).packages),
                  iterAll \in IterOrders(Head(targets).packages
                                         \cup Head(targets).packages_extra)}

\* Gencontrol.extract_makefile
ExtractMakefile ==
    /\ pc = "extract"
    /\ LET x == ExtractTargets(self_packages, <<>>, 1)
       IN  /\ self_packages' = x.packages
           /\ rules' \in ExtractRulesResults(rules, x.targets, flagsHeap)
    /\ pc' = "write"
    /\ UNCHANGED <<cfg, stack, varsHeap, flagsHeap, files, trace,
                   rulesB, relation, callVars, stderr>>

\* Gencontrol.write_rfc822: one paragraph for each entry, held as the
\* entry's fields.
WriteRfc822(list) == [k \in 1..Len(list) |-> list[k].fields]

\* Gencontrol.write
Write ==
    /\ pc = "write"
    /\ files' = DictSet(DictSet(files, "debian/control",
                                WriteRfc822(self_packages)),
                        "debian/rules.gen", MakefileWrite(rules))
    /\ pc' = "done"
    /\ UNCHANGED <<cfg, stack, varsHeap, flagsHeap, self_packages, trace,
                   rules, rulesB, relation, callVars, stderr>>

NextWalk ==
    \/ DoSource
    \/ DoMain
    \/ DoIndepFeatureset
    \/ DoArch
    \/ DoFeatureset
    \/ DoFlavour
    \/ Return
    \/ DoExtra
    \/ MergeBuildDepends
    \/ ExtractMakefile
    \/ Write

SpecWalk == InitWalk /\ [][NextWalk]_vars

(***************************************************************************)
(* Properties of a complete run                                            *)
(***************************************************************************)

\* The rules reachable from the rules S through zero or more dependencies.
RECURSIVE ReachableFrom(_, _)
ReachableFrom(rs, S) ==
    LET next == S \cup UNION {rs[n].deps : n \in S}
    IN  IF next = S THEN S ELSE ReachableFrom(rs, next)

Acyclic(rs) ==
    \A n \in DOMAIN rs : n \notin ReachableFrom(rs, rs[n].deps)

\* do_main, do_extra and extract_makefile have all run.
RunComplete == pc \in {"write", "done"}

\* C7: after a complete run of the walker the dependency relation of the
\* rule table is acyclic: no target is reachable from itself through one
\* or more dependency edges.
C7_AcyclicAfterRun == RunComplete => Acyclic(rules)

\* A complete run that walked two architectures down to their flavours,
\* registered packages with rules-target and had extra packages.
C7_Witness ==
    /\ pc = "done"
    /\ <<"binary-arch", "_", "a1", "_", "f1", "_", "v2", "_", "real", "_", "t1">>
           \in DOMAIN rules
    /\ <<"build-arch", "_", "a2", "_", "none", "_", "v1", "_", "real">>
           \in DOMAIN rules
    /\ <<"binary-arch", "_", "a1", "_", "extra">> \in DOMAIN rules
    /\ <<"build-indep", "_", "real", "_", "t1">> \in DOMAIN rules

TopLevelTargets ==
    {<<"binary-arch">>, <<"build-arch">>, <<"setup">>,
     <<"binary-indep">>, <<"build-indep">>}

\* C8: after a complete run no rule is orphaned: every rule of the rule
\* table is a top-level target or reachable from one through dependency
\* edges, the rules of do_extra and of extract_makefile included.
C8_NoOrphanRule ==
    RunComplete =>
        DOMAIN rules \subseteq
            TopLevelTargets
            \cup ReachableFrom(rules, TopLevelTargets \cap DOMAIN rules)

\* The positions of the trace holding a call op(arch, featureset, flavour).
Calls(op, arch, featureset, flavour) ==
    {k \in 1..Len(trace) :
        /\ trace[k].op = op
        /\ trace[k].arch = arch
        /\ trace[k].featureset = featureset
        /\ trace[k].flavour = flavour}

\* The last position before k holding a call of op, 0 when there is none.
LastBefore(op, k) ==
    IF \E j \in 1..(k - 1) : trace[j].op = op
    THEN CHOOSE j \in 1..(k - 1) :
             /\ trace[j].op = op
             /\ \A m \in (j + 1)..(k - 1) : trace[m].op # op
    ELSE 0

\* The (a, f, v) of the configuration: a a configured architecture, f a
\* feature-set listed for a and not disabled for it, v a flavour of (a, f).
ConfiguredFlavours ==
    {<<a, f, v>> \in Arches \X Featuresets \X {"v1", "v2"} :
        /\ a \in Range(cfg.arches)
        /\ f \in Range(cfg.archFeaturesets[a])
        /\ <<a, f>> \notin cfg.disabled
        /\ v \in Range(cfg.flavours[<<a, f>>])}

HasEdge(from, to) == from \in DOMAIN rules /\ to \in rules[from].deps

LevelVars(arch, featureset) ==
    LET v1 == IF arch = "None" THEN EmptyDict
              ELSE DoArchSetup(DictSet(EmptyDict, "arch", <<arch>>), arch)
    IN  IF featureset = "None" THEN v1
        ELSE DictSet(v1, "localversion",
                     IF featureset = "none" THEN <<>> ELSE <<"-", featureset>>)

LevelMakeFlags(arch, featureset) ==
    LET m1 == IF arch = "None" THEN EmptyDict
              ELSE DictSet(EmptyDict, "ARCH", <<arch>>)
    IN  IF featureset = "None" THEN m1
        ELSE DictSet(m1, "FEATURESET", <<featureset>>)

\* The level above that of the call e.
ParentVars(e) ==
    IF e.op = "do_flavour" THEN LevelVars(e.arch, e.featureset)
    ELSE IF e.op = "do_featureset" THEN LevelVars(e.arch, "None")
    ELSE LevelVars("None", "None")

ParentMakeFlags(e) ==
    IF e.op = "do_flavour" THEN LevelMakeFlags(e.arch, e.featureset)
    ELSE IF e.op = "do_featureset" THEN LevelMakeFlags(e.arch, "None")
    ELSE LevelMakeFlags("None", "None")

\* C10: the vars and makeflags handed to a branch are copies.  Every call
\* is handed exactly what its ancestors set, whatever siblings ran before
\* it; the maps of every call still active hold exactly what that call and
\* its ancestors set, whatever its children did; so at every flavour v
\* under feature-set f, localversion and LOCALVERSION are '-v' when f is
\* 'none' and '-f-v' otherwise.
C10_BranchesGetCopies ==
    /\ \A k \in 1..Len(trace) :
           /\ trace[k].vars_in = ParentVars(trace[k])
           /\ trace[k].makeflags_in = ParentMakeFlags(trace[k])
           /\ trace[k].op = "do_flavour" =>
                  LET lv == IF trace[k].featureset = "none"
                            THEN <<"-", trace[k].flavour>>
                            ELSE <<"-", trace[k].featureset, "-",
                                   trace[k].flavour>>
                  IN  /\ trace[k].vars["localversion"] = lv
                      /\ trace[k].makeflags["LOCALVERSION"] = lv
    /\ \A d \in 1..Len(stack) :
           /\ varsHeap[stack[d].vars]
                  = LevelVars(stack[d].arch, stack[d].featureset)
           /\ flagsHeap[stack[d].makeflags]
                  = LevelMakeFlags(stack[d].arch, stack[d].featureset)
    /\ pc # "idle" => varsHeap[SelfVars] = EmptyDict

\* A flavour processed after a sibling flavour, under a feature-set
\* processed after a sibling feature-set, under an architecture processed
\* after a sibling architecture and after the indep feature-sets.
C10_Witness ==
    /\ pc = "done"
    /\ \E k1, k2, k3, k4 \in 1..Len(trace) :
           /\ k1 < k2 /\ k2 < k3 /\ k3 < k4
           /\ trace[k1].op = "do_indep_featureset"
           /\ trace[k2].op = "do_flavour" /\ trace[k2].arch = "a2"
           /\ trace[k3].op = "do_flavour" /\ trace[k3].arch = "a1"
           /\ trace[k3].featureset = "f1"
           /\ trace[k4].op = "do_flavour" /\ trace[k4].arch = "a1"
           /\ trace[k4].featureset = "none" /\ trace[k4].flavour = "v1"
           /\ Calls("do_flavour", "a1", "none", "v2") # {}

\* The rules whose name starts with the string prefix followed by '_', and
\* the rule prefix itself.
RulesUnder(prefix) ==
    {n \in DOMAIN rules :
        \/ n = prefix
        \/ /\ Len(n) > Len(prefix)
           /\ SubSeq(n, 1, Len(prefix) + 1) = prefix \o <<"_">>}

\* The rule ids under which the packages of the list are registered.
RegisteredRules ==
    UNION {{DictGet(self_packages[k].meta, "rules-rules", <<>>)[i].rule :
               i \in 1..Len(DictGet(self_packages[k].meta, "rules-rules", <<>>))} :
           k \in 1..Len(self_packages)}

\* C11: a feature-set is visited only where 'enabled' resolves true or is
\* absent.  do_indep_featureset runs exactly (once) for the listed
\* feature-sets not disabled in scope None, do_featureset(a, .) exactly for
\* those listed for a and not disabled for a; a feature-set skipped in a
\* scope has no rule, no registered package and no flavour visit there.
C11_DisabledFeaturesetSkipped ==
    RunComplete =>
        /\ \A f \in Featuresets :
               LET on == f \in Range(cfg.featuresets)
                         /\ <<"None", f>> \notin cfg.disabled
                   n == Cardinality(Calls("do_indep_featureset", "None", f,
                                          "None"))
               IN  /\ n = IF on THEN 1 ELSE 0
                   /\ ~on => \A i \in 1..Len(makefile_targets_indep) :
                                 RulesUnder(<<makefile_targets_indep[i], "_", f>>)
                                     = {}
        /\ \A a \in Range(cfg.arches), f \in Featuresets :
               LET on == f \in Range(cfg.archFeaturesets[a])
                         /\ <<a, f>> \notin cfg.disabled
                   n == Cardinality(Calls("do_featureset", a, f, "None"))
               IN  /\ n = IF on THEN 1 ELSE 0
                   /\ ~on =>
                          /\ \A i \in 1..Len(makefile_targets) :
                                 RulesUnder(<<makefile_targets[i], "_", a, "_", f>>)
                                     = {}
                          /\ \A k \in 1..Len(trace) :
                                 ~(/\ trace[k].op = "do_flavour"
                                   /\ trace[k].arch = a
                                   /\ trace[k].featureset = f)
                          /\ \A r \in RegisteredRules :
                                 ~(Len(r) >= 3 /\ SubSeq(r, 1, 3) = <<a, "_", f>>)

\* A complete run where f1 is listed for a1 but disabled there, the other
\* feature-set of a1 was walked and the flavour hook registered packages.
C11_Witness ==
    /\ pc = "done"
    /\ "a1" \in Range(cfg.arches)
    /\ "f1" \in Range(cfg.archFeaturesets["a1"])
    /\ <<"a1", "f1">> \in cfg.disabled
    /\ Calls("do_featureset", "a1", "none", "None") # {}
    /\ <<"a1", "_", "none", "_", "v1", "_", "real">> \in RegisteredRules

\* C13: no output file is created or written until the whole in-memory
\* model has been built: every file write happens after the last walk step,
\* so that an error raised at any point of the walk leaves no file written.
C13_NoFileBeforeModelBuilt ==
    pc # "done" => files = EmptyDict

\* C14: the GNU-type lookup is best-effort.  When it fails for architecture
\* a, a warning is emitted, 'gnu-type-package' is left unset for that
\* branch, and the walk of a's feature-sets and flavours goes on without a
\* fatal error.
C14_GnuTypeBestEffort ==
    /\ \A k \in 1..Len(trace) :
           (trace[k].op = "do_arch" /\ trace[k].arch \in cfg.gnuTypeFails) =>
               /\ <<"W: Unable to get GNU type for ", trace[k].arch>>
                      \in Range(stderr)
               /\ "gnu-type-package" \notin DOMAIN trace[k].vars
    /\ pc # "KeyError"

(***************************************************************************)
(* debian.Version.  A version string is the sequence of its characters.    *)
(***************************************************************************)

\* The characters of the version strings: two digits, a letter, '.' (which
\* stands for any of '.', '+', '~': the classes of Version treat them
\* alike), ':', '-', a newline and a character of no class.
VersionChars == {"0", "1", "a", ".", ":", "-", "\n", "_"}

\* The pieces of lower-case letters the strings are made of; each is
\* indivisible, so 'exp' is in a string only as the whole word.
Letters == {"a", "rc", "exp", "deb", "u", "bpo", "b", "dfsg"}

IsDigit(c) == c \in {"0", "1"}
IsLower(c) == c \in Letters
IsAlnum(c) == IsDigit(c) \/ IsLower(c)

\* A str.index that finds the last c.
IndexLast(s, c) ==
    IF \E i \in 1..Len(s) : s[i] = c
    THEN CHOOSE i \in 1..Len(s) : s[i] = c /\ \A j \in (i + 1)..Len(s) : s[j] # c
    ELSE 0

\* str.index(c): the first position of c in s, 0 for ValueError.
Index(s, c) ==
    IF \E i \in 1..Len(s) : s[i] = c
    THEN CHOOSE i \in 1..Len(s) : s[i] = c /\ \A j \in 1..(i - 1) : s[j] # c
    ELSE 0

\* A str.rindex that finds the first c.
RIndexFirst(s, c) ==
    IF \E i \in 1..Len(s) : s[i] = c
    THEN CHOOSE i \in 1..Len(s) : s[i] = c /\ \A j \in 1..(i - 1) : s[j] # c
    ELSE 0

\* str.rindex(c): the last position of c in s, 0 for ValueError.
RIndex(s, c) ==
    IF \E i \in 1..Len(s) : s[i] = c
    THEN CHOOSE i \in 1..Len(s) : s[i] = c /\ \A j \in (i + 1)..Len(s) : s[j] # c
    ELSE 0

\* s without a final newline: '$' also matches just before one.
BeforeFinalNewline(s) ==
    IF s # <<>> /\ s[Len(s)] = "\n" THEN SubSeq(s, 1, Len(s) - 1) ELSE s

\* Version._epoch_re.match(s): \d+$
EpochMatch(s) ==
    LET t == BeforeFinalNewline(s)
    IN  t # <<>> /\ \A i \in 1..Len(t) : IsDigit(t[i])

\* Version._upstream_re.match(s): [0-9][A-Za-z0-9.+\-:~]*$
UpstreamMatch(s) ==
    LET t == BeforeFinalNewline(s)
    IN  /\ t # <<>>
        /\ IsDigit(t[1])
        /\ \A i \in 2..Len(t) :
               IsAlnum(t[i]) \/ t[i] \in {".", "+", "-", ":", "~"}

\* Version._revision_re.match(s): [A-Za-z0-9+.~]+$
RevisionMatch(s) ==
    LET t == BeforeFinalNewline(s)
    IN  /\ t # <<>>
        /\ \A i \in 1..Len(t) : IsAlnum(t[i]) \/ t[i] \in {".", "+", "~"}

\* int(s) for a string that matched \d+$
RECURSIVE IntOfDigits(_)
IntOfDigits(t) ==
    IF t = <<>> THEN 0
    ELSE 10 * IntOfDigits(SubSeq(t, 1, Len(t) - 1))
         + (IF t[Len(t)] = "1" THEN 1 ELSE 0)

\* int(s): white space around the digits is ignored
IntStr(s) == IntOfDigits(BeforeFinalNewline(s))

\* '%d' % n for n >= 0
RECURSIVE DecStr(_)
DecStr(n) ==
    IF n < 10 THEN <<IF n = 1 THEN "1" ELSE "0">>
    ELSE DecStr(n \div 10) \o <<IF n % 10 = 1 THEN "1" ELSE "0">>

\* The longest run of digits at the start of s: its length.
RECURSIVE Digits(_)
Digits(s) ==
    IF s # <<>> /\ IsDigit(s[1]) THEN 1 + Digits(Tail(s)) ELSE 0

\* The longest run of lower-case letters at the start of s: its length.
RECURSIVE Lowers(_)
Lowers(s) ==
    IF s # <<>> /\ IsLower(s[1]) THEN 1 + Lowers(Tail(s)) ELSE 0

Drop(s, n) == SubSeq(s, n + 1, Len(s))
Take(s, n) == SubSeq(s, 1, n)

\* s starts with the literal lit
StartsWith(s, lit) == Len(s) >= Len(lit) /\ Take(s, Len(lit)) = lit

\* The length of what lit followed by \d+ matches at the start of s, else 0.
LitDigits(s, lit) ==
    IF StartsWith(s, lit) /\ Digits(Drop(s, Len(lit))) > 0
    THEN Len(lit) + Digits(Drop(s, Len(lit)))
    ELSE 0

\* '.' of a regular expression: any character but a newline.  s is not
\* empty and holds no newline.
DotPlus(s) == s # <<>> /\ \A i \in 1..Len(s) : s[i] # "\n"

\* '$': at the end of the string or just before its final newline.
AtEnd(s) == s = <<>> \/ s = <<"\n">>

\* (?:\.dfsg\.(?P<dfsg>\d+))?$ matched with the group taking part
DfsgAt(t) ==
    /\ LitDigits(t, <<".", "dfsg", ".">>) > 0
    /\ AtEnd(Drop(t, LitDigits(t, <<".", "dfsg", ".">>)))

\* VersionLinux._upstream_re.match(s): whether it matches, and its groups
\* (a group that took no part, None, is <<>>, else <<text>>).
LinuxUpstreamRe(s) ==
    LET n1 == Digits(s)
        n2 == LitDigits(Drop(s, n1), <<".">>)
        r1 == Drop(s, n1 + n2)
        ua == LitDigits(r1, <<".">>)
        r2 == Drop(r1, ua)
        nl == Lowers(Drop(r2, 1))
        ub == IF StartsWith(r2, <<"-">>) /\ nl > 0
                  /\ Digits(Drop(r2, 1 + nl)) > 0
              THEN 1 + nl + Digits(Drop(r2, 1 + nl)) ELSE 0
        r3 == Drop(r2, ub)
        M == Drop(r3, 1)
        K == {k \in 1..Len(M) :
                 /\ DotPlus(Take(M, k))
                 /\ DfsgAt(Drop(M, k)) \/ AtEnd(Drop(M, k))}
        k0 == CHOOSE k \in K : \A j \in K : k <= j
        rest == IF StartsWith(r3, <<"~">>) THEN Drop(M, k0) ELSE r3
        none == [matched |-> FALSE, version |-> <<>>, update |-> <<>>,
                 modifier |-> <<>>, dfsg |-> <<>>]
    IN  IF n1 = 0 \/ n2 = 0 THEN none
        ELSE IF StartsWith(r3, <<"~">>) /\ K = {} THEN none
        ELSE IF ~(DfsgAt(rest) \/ AtEnd(rest)) THEN none
        ELSE [matched |-> TRUE,
              version |-> Take(s, n1 + n2),
              update |-> Take(r1, ua + ub),
              modifier |-> IF StartsWith(r3, <<"~">>) THEN <<Take(M, k0)>>
                           ELSE <<>>,
              dfsg |-> IF DfsgAt(rest)
                       THEN <<SubSeq(rest, 4, LitDigits(rest, <<".", "dfsg", ".">>))>>
                       ELSE <<>>]

\* (?:\+b\d+)?$
BinNmuEnd(t) ==
    \/ /\ LitDigits(t, <<"+", "b">>) > 0
       /\ AtEnd(Drop(t, LitDigits(t, <<"+", "b">>)))
    \/ AtEnd(t)

\* The length of what [~+]deb\d+u\d+ matches at the start of t, else 0.
DebUpdate(t) ==
    LET d1 == IF StartsWith(t, <<"~">>) THEN LitDigits(t, <<"~", "deb">>)
              ELSE LitDigits(t, <<"+", "deb">>)
        d2 == LitDigits(Drop(t, d1), <<"u">>)
    IN  IF d1 > 0 /\ d2 > 0 THEN d1 + d2 ELSE 0

\* The length of what (?:[~+]deb\d+u\d+)* matches at the start of t.
RECURSIVE DebUpdates(_)
DebUpdates(t) ==
    IF DebUpdate(t) = 0 THEN 0
    ELSE DebUpdate(t) + DebUpdates(Drop(t, DebUpdate(t)))

\* The length of what ~bpo\d+\+\d+ matches at the start of t, else 0.
Bpo(t) ==
    LET b1 == LitDigits(t, <<"~", "bpo">>)
        b2 == LitDigits(Drop(t, b1), <<"+">>)
    IN  IF b1 > 0 /\ b2 > 0 THEN b1 + b2 ELSE 0

\* VersionLinux._revision_re.match(s): whether it matches and which of the
\* named groups took part.
LinuxRevisionRe(s) ==
    LET n1 == Digits(s)
        r1 == Drop(s, n1)
        R == Drop(r1, LitDigits(r1, <<".">>))
        e == LitDigits(R, <<"~", "exp">>)
        sec == DebUpdates(R)
        bpo == Bpo(Drop(R, sec))
        Groups(m, x, sc, b, o) ==
            [matched |-> m, revision_experimental |-> x,
             revision_security |-> sc, revision_backports |-> b,
             revision_other |-> o]
    IN  IF n1 = 0 THEN Groups(FALSE, FALSE, FALSE, FALSE, FALSE)
        ELSE IF e > 0 /\ BinNmuEnd(Drop(R, e))
        THEN Groups(TRUE, TRUE, FALSE, FALSE, FALSE)
        ELSE IF BinNmuEnd(Drop(R, sec + bpo))
        THEN Groups(TRUE, FALSE, sec > 0, bpo > 0, FALSE)
        ELSE IF DotPlus(BeforeFinalNewline(R))
        THEN Groups(TRUE, FALSE, FALSE, FALSE, TRUE)
        ELSE Groups(FALSE, FALSE, FALSE, FALSE, FALSE)

\* self._upstream_re.match and self._revision_re.match, looked up in the
\* class cls of self.
UpstreamRe(cls, s) ==
    IF cls = "VersionLinux" THEN LinuxUpstreamRe(s).matched ELSE UpstreamMatch(s)

RevisionRe(cls, s) ==
    IF cls = "VersionLinux" THEN LinuxRevisionRe(s).matched ELSE RevisionMatch(s)

\* Version.__init__ run on an object of class cls: the object, or the
\* exception raised.  An absent epoch or revision (None) is <<>>, a present
\* one <<value>>.
VersionInit(cls, version) ==
    LET split == Index(version, ":")
        epoch == IF split = 0 THEN <<>>
                 ELSE <<SubSeq(version, 1, split - 1)>>
        rest == SubSeq(version, split + 1, Len(version))
        rsplit == RIndex(rest, "-")
        upstream == IF rsplit = 0 THEN rest ELSE SubSeq(rest, 1, rsplit - 1)
        revision == IF rsplit = 0 THEN <<>>
                    ELSE <<SubSeq(rest, rsplit + 1, Len(rest))>>
    IN  IF \/ (epoch # <<>> /\ ~EpochMatch(epoch[1]))
           \/ ~UpstreamRe(cls, upstream)
           \/ (revision # <<>> /\ ~RevisionRe(cls, revision[1]))
        THEN [ok |-> FALSE, error |-> "RuntimeError",
              message |-> "Invalid debian version"]
        ELSE [ok |-> TRUE,
              epoch |-> IF epoch = <<>> THEN <<>> ELSE <<IntStr(epoch[1])>>,
              upstream |-> upstream,
              revision |-> revision]

\* Version(version)
Version(version) == VersionInit("Version", version)

\* Version.complete_noepoch
CompleteNoEpoch(v) ==
    IF v.revision # <<>> THEN v.upstream \o <<"-">> \o v.revision[1]
    ELSE v.upstream

\* A Version.complete that leaves the epoch out.
CompleteWithoutEpoch(v) == CompleteNoEpoch(v)

\* Version.complete, which is Version.__str__
Complete(v) ==
    IF v.epoch # <<>> THEN DecStr(v.epoch[1]) \o <<":">> \o CompleteNoEpoch(v)
    ELSE CompleteNoEpoch(v)

\* VersionLinux.__init__ after both patterns matched: the assert and the
\* attributes, from the groups up of the upstream and rev of the revision.
LinuxAttributes(v, up, rev, optimize) ==
    LET linux_upstream == IF up.modifier # <<>>
                          THEN up.version \o <<"-">> \o up.modifier[1]
                          ELSE up.version
    IN  IF ~up.matched \/ ~rev.matched
        THEN [ok |-> FALSE, error |-> "RuntimeError",
              message |-> "Invalid debian linux version"]
        ELSE IF up.modifier # <<>> /\ up.update # <<>> /\ ~optimize
        THEN [ok |-> FALSE, error |-> "AssertionError", message |-> ""]
        ELSE [ok |-> TRUE,
              epoch |-> v.epoch,
              upstream |-> v.upstream,
              revision |-> v.revision,
              linux_modifier |-> up.modifier,
              linux_version |-> up.version,
              linux_upstream |-> linux_upstream,
              linux_upstream_full |-> linux_upstream \o up.update,
              linux_dfsg |-> up.dfsg,
              linux_revision_experimental |-> rev.revision_experimental,
              linux_revision_security |-> rev.revision_security,
              linux_revision_backports |-> rev.revision_backports,
              linux_revision_other |-> rev.revision_other]

\* VersionLinux.__init__ after super().__init__ returned v or raised.
LinuxInit(v, optimize) ==
    IF ~v.ok THEN v
    ELSE IF v.revision = <<>>
    THEN [ok |-> FALSE, error |-> "TypeError",
          message |-> "expected string or bytes-like object"]
    ELSE LinuxAttributes(v, LinuxUpstreamRe(v.upstream),
                         LinuxRevisionRe(v.revision[1]), optimize)

\* VersionLinux(version): the object, or the exception raised.  optimize
\* tells whether the interpreter runs with -O, which drops assert.
VersionLinux(version, optimize) ==
    LinuxInit(VersionInit("VersionLinux", version), optimize)

(***************************************************************************)
(* Version called on any short string                                      *)
(***************************************************************************)

MaxVersionLen == 4

VersionStrings == UNION {[1..n -> VersionChars] : n \in 0..MaxVersionLen}

InitVersion ==
    /\ arg \in VersionStrings
    /\ ret = <<>>
    /\ rules = EmptyRules
    /\ rulesB = EmptyRules
    /\ relation = <<>>
    /\ WalkerIdle

\* v = Version(arg)
CallVersion ==
    /\ ret = <<>>
    /\ ret' = <<Version(arg)>>
    /\ UNCHANGED <<arg, rules, rulesB, relation, walkVars>>

\* v.complete, v.complete_noepoch and str(v)
CallComplete ==
    /\ Len(ret) = 1
    /\ ret[1].ok
    /\ ret' = Append(ret, [complete |-> Complete(ret[1]),
                           complete_noepoch |-> CompleteNoEpoch(ret[1]),
                           str |-> Complete(ret[1])])
    /\ UNCHANGED <<arg, rules, rulesB, relation, walkVars>>

\* Version(str(v))
CallVersionOfStr ==
    /\ Len(ret) = 2
    /\ ret' = Append(ret, Version(ret[2].str))
    /\ UNCHANGED <<arg, rules, rulesB, relation, walkVars>>

NextVersion == CallVersion \/ CallComplete \/ CallVersionOfStr

SpecVersion == InitVersion /\ [][NextVersion]_vars

\* The text of the epoch of the accepted string s with its ':', empty when
\* the object v has no epoch: what s holds before upstream.
EpochPrefix(s, v) ==
    SubSeq(s, 1, Len(s) - Len(CompleteNoEpoch(v)))

PartsAt(s, c) ==
    LET rest == SubSeq(s, c + 1, Len(s))
        d == IF \E i \in 1..Len(rest) : rest[i] = "-"
             THEN CHOOSE i \in 1..Len(rest) :
                      rest[i] = "-" /\ \A j \in (i + 1)..Len(rest) : rest[j] # "-"
             ELSE 0
    IN  [epoch |-> IF c = 0 THEN <<>> ELSE <<SubSeq(s, 1, c - 1)>>,
         upstream |-> IF d = 0 THEN rest ELSE SubSeq(rest, 1, d - 1),
         revision |-> IF d = 0 THEN <<>> ELSE <<SubSeq(rest, d + 1, Len(rest))>>]

\* Each part of the split p matches its grammar.
PartsMatch(p) ==
    /\ p.epoch # <<>> => EpochMatch(p.epoch[1])
    /\ UpstreamMatch(p.upstream)
    /\ p.revision # <<>> => RevisionMatch(p.revision[1])

\* Version(s) behaves as the split of s at the colon at position c says.
SplitsAt(s, c, v) ==
    LET p == PartsAt(s, c)
    IN  /\ v.ok = PartsMatch(p)
        /\ ~v.ok => v.error = "RuntimeError"
        /\ v.ok => /\ v.epoch = (IF c = 0 THEN <<>> ELSE <<IntStr(p.epoch[1])>>)
                   /\ v.upstream = p.upstream
                   /\ v.revision = p.revision

FirstColon(s) ==
    IF \E i \in 1..Len(s) : s[i] = ":"
    THEN CHOOSE i \in 1..Len(s) : s[i] = ":" /\ \A j \in 1..(i - 1) : s[j] # ":"
    ELSE 0

LastColon(s) ==
    IF \E i \in 1..Len(s) : s[i] = ":"
    THEN CHOOSE i \in 1..Len(s) : s[i] = ":" /\ \A j \in (i + 1)..Len(s) : s[j] # ":"
    ELSE 0

\* C16 as stated: the epoch boundary is the last ':' of s; the epoch is the
\* text before it, upstream is taken from the text after it, and
\* construction fails exactly when a part of this split does not match its
\* grammar.
C16_EpochAtLastColon ==
    Len(ret) >= 1 => SplitsAt(arg, LastColon(arg), ret[1])

\* C16, amended: the epoch boundary is the first ':' of s; the epoch is the
\* text before it, upstream is taken from the text after it and may hold
\* further colons, and construction fails with RuntimeError exactly when a
\* part of this split does not match its pattern (a pattern ends with '$',
\* which lets the part end with one newline).
C16_EpochAtFirstColon ==
    Len(ret) >= 1 => SplitsAt(arg, FirstColon(arg), ret[1])

\* An accepted string with two colons: the second one is kept in upstream.
C16_Witness ==
    /\ Len(ret) >= 1
    /\ FirstColon(arg) # LastColon(arg)
    /\ ret[1].ok
    /\ ret[1].epoch = <<1>>
    /\ ret[1].upstream = <<"1", ":">>

MaxLinuxParts == 4

LinuxParts ==
    { <<"1", ".", "1">>,
      <<".", "1">>,
      <<"~", "rc", "1">>,
      <<"-", "rc", "1">>,
      <<".", "dfsg", ".", "1">>,
      <<"-", "1">>,
      <<"~", "exp", "1">>,
      <<"+", "deb", "1", "u", "1">>,
      <<"~", "bpo", "1", "+", "1">>,
      <<"+", "b", "1">> }

\* The concatenation of the strings of the sequence ps.
RECURSIVE Concat(_)
Concat(ps) == IF ps = <<>> THEN <<>> ELSE Head(ps) \o Concat(Tail(ps))

LinuxStrings ==
    {Concat(ps) : ps \in UNION {[1..n -> LinuxParts] : n \in 0..MaxLinuxParts}}

InitVersionLinux ==
    /\ arg \in LinuxStrings
    /\ ret = <<>>
    /\ rules = EmptyRules
    /\ rulesB = EmptyRules
    /\ relation = <<>>
    /\ WalkerIdle

\* VersionLinux(arg), under an interpreter that keeps or drops assert
CallVersionLinux ==
    /\ ret = <<>>
    /\ \E optimize \in BOOLEAN :
           ret' = <<[optimize |-> optimize,
                     result |-> VersionLinux(arg, optimize)]>>
    /\ UNCHANGED <<arg, rules, rulesB, relation, walkVars>>

NextVersionLinux == CallVersionLinux

SpecVersionLinux == InitVersionLinux /\ [][NextVersionLinux]_vars

\* C18: VersionLinux construction either succeeds or fails with the
\* RuntimeError raised for invalid versions, also for a string with no
\* '-revision' part and for an upstream with both an update and a
\* '~modifier'; no other error kind escapes.
C18_OnlyInvalidVersionError ==
    Len(ret) >= 1 =>
        \/ ret[1].result.ok
        \/ ret[1].result.error = "RuntimeError"

(***************************************************************************)
(* Build restrictions                                                      *)
(***************************************************************************)

\* \s of a regular expression and the separators of str.split()
IsSpace(c) == c \in {" ", "\t", "\n"}

\* The number of ' ' at the start of s.
RECURSIVE Spaces(_)
Spaces(s) == IF s # <<>> /\ s[1] = " " THEN 1 + Spaces(Tail(s)) ELSE 0

\* The number of characters other than '>' at the start of s.
RECURSIVE NotClosing(_)
NotClosing(s) == IF s # <<>> /\ s[1] # ">" THEN 1 + NotClosing(Tail(s)) ELSE 0

\* A pattern for the formula without its final '(?: +|$)'.
FormulaReMatchOpenEnd(s) ==
    LET lead == Spaces(s)
        body == Drop(s, lead + 1)
        n == NotClosing(body)
        after == Drop(body, n + 1)
    IN  IF /\ Len(s) > lead
           /\ s[lead + 1] = "<"
           /\ n > 0
           /\ Len(body) > n
        THEN [matched |-> TRUE,
              end |-> lead + 1 + n + 1 + Spaces(after),
              group |-> Take(body, n)]
        ELSE [matched |-> FALSE, end |-> 0, group |-> <<>>]

\* PackageBuildRestrictFormula._re matched at the start of s:
\* ' *<([^>]+)>(?: +|$)'.  The length of the match and group 1.
FormulaReMatch(s) ==
    LET lead == Spaces(s)
        body == Drop(s, lead + 1)
        n == NotClosing(body)
        after == Drop(body, n + 1)
    IN  IF /\ Len(s) > lead
           /\ s[lead + 1] = "<"
           /\ n > 0
           /\ Len(body) > n
           /\ Spaces(after) > 0 \/ AtEnd(after)
        THEN [matched |-> TRUE,
              end |-> lead + 1 + n + 1 + Spaces(after),
              group |-> Take(body, n)]
        ELSE [matched |-> FALSE, end |-> 0, group |-> <<>>]

\* The loop over _re.finditer(value) of update: the matches that follow each
\* other from the start of s without a gap, and where they end.
RECURSIVE FormulaMatches(_)
FormulaMatches(s) ==
    LET m == FormulaReMatch(s)
        more == FormulaMatches(Drop(s, m.end))
    IN  IF ~m.matched THEN [pos |-> 0, groups |-> <<>>]
        ELSE [pos |-> m.end + more.pos, groups |-> <<m.group>> \o more.groups]

\* value.split(): the runs of characters that are not white space.
RECURSIVE Split(_)
Split(s) ==
    LET word == CHOOSE n \in 0..Len(s) :
                    /\ \A i \in 1..n : ~IsSpace(s[i])
                    /\ n < Len(s) => IsSpace(s[n + 1])
    IN  IF s = <<>> THEN <<>>
        ELSE IF IsSpace(s[1]) THEN Split(Tail(s))
        ELSE <<Take(s, word)>> \o Split(Drop(s, word))

\* PackageBuildRestrictTerm(value): (!?)([^()\[\]<>,!\s]+) matched in full
PackageBuildRestrictTerm(value) ==
    LET negated == value # <<>> /\ value[1] = "!"
        profile == IF negated THEN Tail(value) ELSE value
    IN  IF /\ profile # <<>>
           /\ \A i \in 1..Len(profile) :
                  /\ profile[i] \notin {"(", ")", "[", "]", "<", ">", ",", "!"}
                  /\ ~IsSpace(profile[i])
        THEN [ok |-> TRUE, negated |-> negated, profile |-> profile]
        ELSE [ok |-> FALSE, error |-> "ValueError",
              message |-> "invalid restriction term"]

\* A term without its ok field, as a member of a list.
TermOf(t) == [negated |-> t.negated, profile |-> t.profile]

\* PackageBuildRestrictList(value) for a string
PackageBuildRestrictList(value) ==
    LET terms == {PackageBuildRestrictTerm(w) :
                     w \in {Split(value)[i] : i \in 1..Len(Split(value))}}
    IN  IF ~(/\ value # <<>>
             /\ \A i \in 1..Len(value) :
                    value[i] \notin {"(", ")", "[", "]", "<", ">", ","})
        THEN [ok |-> FALSE, error |-> "ValueError",
              message |-> "invalid restriction list"]
        ELSE IF \E t \in terms : ~t.ok
        THEN [ok |-> FALSE, error |-> "ValueError",
              message |-> "invalid restriction term"]
        ELSE [ok |-> TRUE, terms |-> {TermOf(t) : t \in terms}]

\* PackageBuildRestrictFormula.update with the lists made of the groups
FormulaAdd(groups) ==
    LET lists == {PackageBuildRestrictList(groups[i]) : i \in 1..Len(groups)}
        bad == {i \in 1..Len(groups) : ~PackageBuildRestrictList(groups[i]).ok}
    IN  IF bad # {}
        THEN PackageBuildRestrictList(groups[CHOOSE i \in bad : \A j \in bad : i <= j])
        ELSE [ok |-> TRUE, lists |-> {l.terms : l \in lists}]

\* PackageBuildRestrictFormula(value) for a string
PackageBuildRestrictFormula(value) ==
    IF value = <<>> THEN [ok |-> TRUE, lists |-> {}]
    ELSE IF FormulaMatches(value).pos # Len(value)
    THEN [ok |-> FALSE, error |-> "ValueError",
          message |-> "invalid restriction formula"]
    ELSE FormulaAdd(FormulaMatches(value).groups)

\* A restriction_requires_profile that looks at the profile name alone.
restriction_mentions_profile(form, profile) ==
    IF form = {} THEN [ok |-> TRUE, value |-> FALSE]
    ELSE IF ~PackageBuildRestrictTerm(profile).ok
    THEN PackageBuildRestrictTerm(profile)
    ELSE [ok |-> TRUE,
          value |-> \A lst \in form :
                        \E t \in lst :
                            t.profile = PackageBuildRestrictTerm(profile).profile]

\* restriction_requires_profile(form, profile)
restriction_requires_profile(form, profile) ==
    IF form = {} THEN [ok |-> TRUE, value |-> FALSE]
    ELSE IF ~PackageBuildRestrictTerm(profile).ok
    THEN PackageBuildRestrictTerm(profile)
    ELSE [ok |-> TRUE,
          value |-> \A lst \in form :
                        TermOf(PackageBuildRestrictTerm(profile)) \in lst]

MaxRestrictParts == 4

RestrictParts ==
    { <<"<", "a", ">">>,
      <<"<", "!", "a", ">">>,
      <<"<", "a", " ", "b", ">">>,
      <<" ">>, <<"\t">>, <<"\n">>, <<"<">>, <<">">>, <<"a">>, <<"!">>, <<",">> }

RestrictStrings ==
    {Concat(ps) : ps \in UNION {[1..n -> RestrictParts] : n \in 0..MaxRestrictParts}}

Profiles == {<<"a">>, <<"b">>, <<"!", "a">>, <<>>}

InitRestrict ==
    /\ arg \in RestrictStrings
    /\ ret = <<>>
    /\ rules = EmptyRules
    /\ rulesB = EmptyRules
    /\ relation = <<>>
    /\ WalkerIdle

\* form = PackageBuildRestrictFormula(arg)
CallFormula ==
    /\ ret = <<>>
    /\ ret' = <<PackageBuildRestrictFormula(arg)>>
    /\ UNCHANGED <<arg, rules, rulesB, relation, walkVars>>

\* restriction_requires_profile(form, profile)
CallRequiresProfile ==
    /\ Len(ret) = 1
    /\ ret[1].ok
    /\ \E profile \in Profiles :
           ret' = Append(ret, [profile |-> profile,
                               result |-> restriction_requires_profile(ret[1].lists, profile)])
    /\ UNCHANGED <<arg, rules, rulesB, relation, walkVars>>

NextRestrict == CallFormula \/ CallRequiresProfile

SpecRestrict == InitRestrict /\ [][NextRestrict]_vars

\* C19: restriction_requires_profile(form, p) is true exactly when form
\* holds at least one list and every list holds the un-negated term p; it
\* is false for the empty formula whatever p is, and false when a list lacks
\* p or holds only !p.
C19_RequiresProfile ==
    Len(ret) = 2 =>
        LET form == ret[1].lists
            p == ret[2].profile
            r == ret[2].result
            plain == [negated |-> FALSE, profile |-> p]
        IN  /\ form = {} => r.ok /\ ~r.value
            /\ p \in {<<"a">>, <<"b">>} =>
                   /\ r.ok
                   /\ r.value = (form # {} /\ \A lst \in form : plain \in lst)
                   /\ (\E lst \in form :
                           \A t \in lst : t.profile = p => t.negated) => ~r.value

\* A formula of two lists that both hold the profile asked for.
C19_Witness ==
    /\ Len(ret) = 2
    /\ ret[2].profile = <<"a">>
    /\ Cardinality(ret[1].lists) = 2
    /\ ret[2].result.ok
    /\ ret[2].result.value

\* The number of characters of the set seps at the start of s.
RECURSIVE SkipSeps(_, _)
SkipSeps(s, seps) ==
    IF s # <<>> /\ s[1] \in seps THEN 1 + SkipSeps(Tail(s), seps) ELSE 0

\* s read as '<...>' groups, each followed by the end of s or by one or more
\* separators of seps: whether s is such a sequence, and the texts between
\* the brackets.
RECURSIVE GroupSequence(_, _)
GroupSequence(s, seps) ==
    LET n == NotClosing(Tail(s))
        after == Drop(s, n + 2)
        k == SkipSeps(after, seps)
        more == GroupSequence(Drop(after, k), seps)
        fail == [ok |-> FALSE, groups |-> <<>>]
    IN  IF s = <<>> THEN [ok |-> TRUE, groups |-> <<>>]
        ELSE IF s[1] # "<" \/ n = 0 \/ Len(s) < n + 2 THEN fail
        ELSE IF after # <<>> /\ k = 0 THEN fail
        ELSE [ok |-> more.ok, groups |-> <<Take(Tail(s), n)>> \o more.groups]

\* The words of a group are terms: an optional '!' and a name.
ValidGroup(g) ==
    /\ \A i \in 1..Len(g) : g[i] \notin {"(", ")", "[", "]", "<", ">", ","}
    /\ \A i \in 1..Len(Split(g)) :
           LET w == Split(g)[i]
               name == IF w[1] = "!" THEN Tail(w) ELSE w
           IN  name # <<>> /\ \A j \in 1..Len(name) : name[j] # "!"

\* The list of a group: its terms, a leading '!' marking negation.
GroupTerms(g) ==
    {[negated |-> Split(g)[i][1] = "!",
      profile |-> IF Split(g)[i][1] = "!" THEN Tail(Split(g)[i]) ELSE Split(g)[i]] :
         i \in 1..Len(Split(g))}

\* Building a formula from the text s gives what its reading as groups
\* separated by the characters of seps says.
BuiltFromGroups(s, seps, f) ==
    LET t == Drop(s, SkipSeps(s, seps))
        g == GroupSequence(t, seps).groups
        accepted == \/ s = <<>>
                    \/ /\ t # <<>>
                       /\ GroupSequence(t, seps).ok
                       /\ \A i \in 1..Len(g) : ValidGroup(g[i])
    IN  /\ f.ok = accepted
        /\ ~f.ok => f.error = "ValueError"
        /\ f.ok => f.lists = {GroupTerms(g[i]) : i \in 1..Len(g)}

\* C20 as stated: building a formula from text succeeds exactly when the
\* text is a sequence of '<...>' groups separated only by white space up to
\* its end, and then holds one list per distinct group; any other text
\* raises an error.
C20_GroupsSeparatedByWhitespace ==
    Len(ret) >= 1 => BuiltFromGroups(arg, {" ", "\t", "\n"}, ret[1])

\* C20, amended: the separators are space characters only.  Building
\* succeeds exactly when the text is empty or is one or more '<...>' groups
\* of valid terms, each followed by one or more spaces or by the end of the
\* text, with spaces allowed before the first group; it then holds one list
\* per distinct group.  Any other text, one with a tab or a newline outside
\* the groups included, raises ValueError.
C20_GroupsSeparatedBySpaces ==
    Len(ret) >= 1 => BuiltFromGroups(arg, {" "}, ret[1])

\* Two different groups separated by a space give two lists.
C20_Witness ==
    /\ Len(ret) >= 1
    /\ ret[1].ok
    /\ Cardinality(ret[1].lists) = 2
    /\ \E l \in ret[1].lists : Cardinality(l) = 2

(***************************************************************************)
(* Gencontrol() of debian/bin/gencontrol.py, then the run                  *)
(***************************************************************************)

\* s.endswith(suffix), for a string held as its pieces
EndsWith(s, suffix) == s # <<>> /\ s[Len(s)] = suffix

\* The distributions of the first changelog entry.
Distributions ==
    { <<"unstable">>, <<"experimental">>, <<"UNRELEASED">>,
      <<"bookworm">>, <<"bookworm", "-security">>, <<"bullseye", "-lts">>,
      <<"bookworm", "-backports">>, <<"bookworm", "-backports", "-sloppy">> }

\* The versions of the first changelog entry: plain, experimental,
\* backports, security, security and backports, other, and one without a
\* revision.
ChangelogVersions ==
    { <<"1", ".", "1", "-", "1">>,
      <<"1", ".", "1", "-", "1", "~", "exp", "1">>,
      <<"1", ".", "1", "-", "1", "~", "bpo", "1", "+", "1">>,
      <<"1", ".", "1", "-", "1", "+", "deb", "1", "u", "1">>,
      <<"1", ".", "1", "-", "1", "+", "deb", "1", "u", "1", "~", "bpo", "1", "+", "1">>,
      <<"1", ".", "1", "-", "1", ".", "1", ".", "1">>,
      <<"1", ".", "1">> }

EnvNames == {"DEBIAN_KERNEL_DISABLE_INSTALLER", "DEBIAN_KERNEL_DISABLE_SIGNED"}

\* The configurations of the runs that follow a construction.
ConstructConfigs ==
    {c \in Configs : /\ c.arches = <<"a2", "a1">>
                     /\ c.disabled = {}
                     /\ c.gnuTypeFails = {}
                     /\ c.source = "linux"
                     /\ c.hookMain # <<>>}

\* A process_changelog without the rule for '-backports'.
ProcessChangelogNoBackportsRule(distribution, version) ==
    LET abiname ==
            IF distribution = <<"UNRELEASED">>
            THEN version.linux_upstream \o <<"+unreleased">>
            ELSE IF distribution = <<"experimental">>
            THEN version.linux_upstream
            ELSE IF version.linux_revision_backports
            THEN version.linux_upstream_full \o <<"+bpo">>
            ELSE version.linux_upstream_full
        refused ==
            \/ /\ distribution = <<"unstable">>
               /\ \/ version.linux_revision_experimental
                  \/ version.linux_revision_backports
                  \/ version.linux_revision_other
            \/ /\ distribution = <<"experimental">>
               /\ ~version.linux_revision_experimental
            \/ /\ EndsWith(distribution, "-security") \/ EndsWith(distribution, "-lts")
               /\ \/ version.linux_revision_backports
                  \/ version.linux_revision_other
    IN  IF refused
        THEN [ok |-> FALSE, error |-> "RuntimeError",
              message |-> "Can't upload to %s with a version of %s"]
        ELSE [ok |-> TRUE, abiname |-> abiname]

\* Gencontrol.process_changelog
ProcessChangelog(distribution, version) ==
    LET abiname ==
            IF distribution = <<"UNRELEASED">>
            THEN version.linux_upstream \o <<"+unreleased">>
            ELSE IF distribution = <<"experimental">>
            THEN version.linux_upstream
            ELSE IF version.linux_revision_backports
            THEN version.linux_upstream_full \o <<"+bpo">>
            ELSE version.linux_upstream_full
        refused ==
            \/ /\ distribution = <<"unstable">>
               /\ \/ version.linux_revision_experimental
                  \/ version.linux_revision_backports
                  \/ version.linux_revision_other
            \/ /\ distribution = <<"experimental">>
               /\ ~version.linux_revision_experimental
            \/ /\ EndsWith(distribution, "-security") \/ EndsWith(distribution, "-lts")
               /\ \/ version.linux_revision_backports
                  \/ version.linux_revision_other
            \/ /\ EndsWith(distribution, "-backports")
               /\ ~version.linux_revision_backports
    IN  IF refused
        THEN [ok |-> FALSE, error |-> "RuntimeError",
              message |-> "Can't upload to %s with a version of %s"]
        ELSE [ok |-> TRUE, abiname |-> abiname]

\* The loop over env_flags of Gencontrol.__init__
EnvFlags(distribution, env, made) ==
    IF env = {}
    THEN [ok |-> TRUE, abiname |-> made.abiname,
          disable_installer |-> FALSE, disable_signed |-> FALSE]
    ELSE IF distribution = <<"UNRELEASED">>
    THEN [ok |-> TRUE, abiname |-> made.abiname,
          disable_installer |-> "DEBIAN_KERNEL_DISABLE_INSTALLER" \in env,
          disable_signed |-> "DEBIAN_KERNEL_DISABLE_SIGNED" \in env]
    ELSE [ok |-> FALSE, error |-> "RuntimeError",
          message |-> "Unable to disable %s in release build (%s set)"]

\* Gencontrol.__init__ after process_changelog returned made or raised
AfterProcessChangelog(entry, made) ==
    IF ~made.ok THEN made
    ELSE EnvFlags(entry.distribution, entry.env, made)

\* Gencontrol.__init__ after Changelog(version=VersionLinux) gave the
\* version of the first entry or raised
AfterChangelog(entry, version) ==
    IF ~version.ok THEN version
    ELSE AfterProcessChangelog(entry,
                               ProcessChangelog(entry.distribution, version))

\* Gencontrol.__init__: the changelog is read with VersionLinux, then
\* process_changelog, then the environment flags.
GencontrolInit(entry, optimize) ==
    AfterChangelog(entry, VersionLinux(entry.version, optimize))

InitConstruct ==
    /\ arg \in [distribution : Distributions, version : ChangelogVersions,
                env : SUBSET EnvNames]
    /\ ret = <<>>
    /\ rules = EmptyRules
    /\ rulesB = EmptyRules
    /\ relation = <<>>
    /\ WalkerIdle

\* The generator made, ready for __call__ on the configuration c, or the
\* exception made that ends the program.
Constructed(made, c) ==
    /\ ret' = <<made>>
    /\ IF made.ok
       THEN /\ pc' = "source"
            /\ cfg' = [c EXCEPT !.signed =
                           IF made.disable_signed THEN {} ELSE c.signed]
            /\ varsHeap' = <<EmptyDict>>
       ELSE /\ pc' = made.error
            /\ UNCHANGED <<cfg, varsHeap>>

\* Gencontrol(): the object ready for __call__, or the exception.
Construct ==
    /\ pc = "idle"
    /\ \E optimize \in BOOLEAN, c \in ConstructConfigs :
           Constructed(GencontrolInit(arg, optimize), c)
    /\ UNCHANGED <<arg, stack, flagsHeap, self_packages, files, trace, stderr,
                   rules, rulesB, relation>>

NextConstruct == Construct \/ NextWalk

SpecConstruct == InitConstruct /\ [][NextConstruct]_vars

\* The markers of the revision of version break a rule for distribution.
PolicyRefusesMarkers(distribution, version) ==
    \/ /\ distribution = <<"unstable">>
       /\ \/ version.linux_revision_experimental
          \/ version.linux_revision_backports
          \/ version.linux_revision_other
    \/ /\ distribution = <<"experimental">>
       /\ ~version.linux_revision_experimental
    \/ /\ distribution[Len(distribution)] \in {"-security", "-lts"}
       /\ version.linux_revision_backports \/ version.linux_revision_other
    \/ /\ distribution[Len(distribution)] = "-backports"
       /\ ~version.linux_revision_backports

\* The release policy refuses the version for the distribution.
PolicyRefuses(distribution, version) ==
    /\ version.ok
    /\ PolicyRefusesMarkers(distribution, version)

\* C12: the release policy is enforced before anything is generated.  When
\* the first changelog entry's distribution and the markers of its
\* version's revision break a rule, constructing the generator raises an
\* error, and no package, no rule and no output file exists then or later.
C12_PolicyBeforeGeneration ==
    (/\ pc # "idle"
     /\ PolicyRefuses(arg.distribution, VersionLinux(arg.version, FALSE))) =>
        /\ pc = "RuntimeError"
        /\ ~ret[1].ok
        /\ ret[1].error = "RuntimeError"
        /\ rules = EmptyRules
        /\ self_packages = <<>>
        /\ files = EmptyDict
        /\ trace = <<>>

\* A version without a backports marker refused for a '-backports'
\* distribution.
C12_Witness ==
    /\ pc = "RuntimeError"
    /\ arg.distribution = <<"bookworm", "-backports">>
    /\ arg.version = <<"1", ".", "1", "-", "1", "+", "deb", "1", "u", "1">>
    /\ ret[1].message = "Can't upload to %s with a version of %s"
    /\ files = EmptyDict

(***************************************************************************)
(* PackageRelationEntry read from a string                                 *)
(***************************************************************************)

\* PackageRelationEntryOperator
Operators == {"<<", "<=", "=", "!=", ">=", ">>"}

\* An __neg__ that mirrors the operator instead of complementing it.
OperatorNegMirror(op) ==
    CASE op = "<<" -> ">>"
      [] op = "<=" -> ">="
      [] op = "=" -> "!="
      [] op = "!=" -> "="
      [] op = ">=" -> "<="
      [] op = ">>" -> "<<"

\* PackageRelationEntryOperator.__neg__
OperatorNeg(op) ==
    CASE op = "<<" -> ">="
      [] op = "<=" -> ">>"
      [] op = "=" -> "!="
      [] op = "!=" -> "="
      [] op = ">=" -> "<<"
      [] op = ">>" -> "<="

\* The number of characters that are not white space at the start of s.
RECURSIVE NonSpaces(_)
NonSpaces(s) == IF s # <<>> /\ ~IsSpace(s[1]) THEN 1 + NonSpaces(Tail(s)) ELSE 0

\* The number of white space characters at the start of s.
RECURSIVE WhiteSpaces(_)
WhiteSpaces(s) == IF s # <<>> /\ IsSpace(s[1]) THEN 1 + WhiteSpaces(Tail(s)) ELSE 0

\* The number of characters other than c at the start of s.
RECURSIVE NotChar(_, _)
NotChar(s, c) == IF s # <<>> /\ s[1] # c THEN 1 + NotChar(Tail(s), c) ELSE 0

\* (?: \((?P<operator><<|<=|=|!=|>=|>>)\s*(?P<version>[^)]+)\))? at the
\* start of s.  \s* gives one character back when the version would be
\* empty otherwise.
EntryVersionPart(s) ==
    LET ws == WhiteSpaces(Drop(s, 3))
        n == NotChar(Drop(s, 3 + ws), ")")
        from == IF n = 0 /\ ws > 0 THEN 3 + ws - 1 ELSE 3 + ws
        len == IF n = 0 /\ ws > 0 THEN 1 ELSE n
    IN  IF /\ Len(s) >= 3
           /\ s[1] = " " /\ s[2] = "(" /\ s[3] \in Operators
           /\ len > 0
           /\ Len(s) > from + len
        THEN [end |-> from + len + 1, operator |-> <<s[3]>>,
              version |-> <<SubSeq(s, from + 1, from + len)>>]
        ELSE [end |-> 0, operator |-> <<>>, version |-> <<>>]

\* (?: \[(?P<arches>[^]]+)\])? at the start of s.
EntryArchesPart(s) ==
    LET n == NotChar(Drop(s, 2), "]")
    IN  IF /\ Len(s) >= 2
           /\ s[1] = " " /\ s[2] = "["
           /\ n > 0
           /\ Len(s) > 2 + n
        THEN [end |-> 2 + n + 1, arches |-> <<SubSeq(s, 3, 2 + n)>>]
        ELSE [end |-> 0, arches |-> <<>>]

\* (?P<restrictions>(?: <[^>]+>)*) at the start of s: where it ends.
RECURSIVE EntryRestrictionsPart(_)
EntryRestrictionsPart(s) ==
    LET n == NotChar(Drop(s, 2), ">")
    IN  IF /\ Len(s) >= 2
           /\ s[1] = " " /\ s[2] = "<"
           /\ n > 0
           /\ Len(s) > 2 + n
        THEN 2 + n + 1 + EntryRestrictionsPart(Drop(s, 2 + n + 1))
        ELSE 0

\* PackageArchitecture(v) for a string: nothing for the empty string, else
\* re.split(r'\s+', v.strip()), which is [''] for white space alone.
PackageArchitecture(v) ==
    IF v = <<>> THEN {}
    ELSE IF Split(v) = <<>> THEN {<<>>}
    ELSE Range(Split(v))

\* PackageRelationEntry(v, arches=arches) for a string v, once the name and
\* the version part are matched: the arches, the restrictions and the end.
EntryAfterVersion(name, ver, s, arches) ==
    LET ar == EntryArchesPart(s)
        n == EntryRestrictionsPart(Drop(s, ar.end))
        restrictions == PackageBuildRestrictFormula(SubSeq(s, ar.end + 1, ar.end + n))
    IN  IF ~AtEnd(Drop(s, ar.end + n))
        THEN [ok |-> FALSE, error |-> "RuntimeError",
              message |-> "Unable to parse dependency"]
        ELSE IF ~restrictions.ok THEN restrictions
        ELSE [ok |-> TRUE, name |-> name, operator |-> ver.operator,
              version |-> ver.version,
              arches |-> IF arches # {} THEN arches
                         ELSE IF ar.arches = <<>> THEN {}
                         ELSE PackageArchitecture(ar.arches[1]),
              restrictions |-> restrictions.lists]

\* After the name: the version part, when it is there.
EntryAfterName(name, s, arches) ==
    EntryAfterVersion(name, EntryVersionPart(s), Drop(s, EntryVersionPart(s).end), arches)

\* PackageRelationEntry(v, arches=arches) for a string v
PackageRelationEntry(v, arches) ==
    IF NonSpaces(v) = 0
    THEN [ok |-> FALSE, error |-> "RuntimeError",
          message |-> "Unable to parse dependency"]
    ELSE EntryAfterName(Take(v, NonSpaces(v)), Drop(v, NonSpaces(v)), arches)

\* s.strip()
RECURSIVE LStrip(_)
LStrip(s) == IF s # <<>> /\ IsSpace(s[1]) THEN LStrip(Tail(s)) ELSE s

RECURSIVE RStrip(_)
RStrip(s) ==
    IF s # <<>> /\ IsSpace(s[Len(s)]) THEN RStrip(Take(s, Len(s) - 1)) ELSE s

Strip(s) == LStrip(RStrip(s))

\* re.split on the one character c: the pieces of s between the c's
RECURSIVE SplitOn(_, _)
SplitOn(s, c) ==
    IF NotChar(s, c) = Len(s) THEN <<s>>
    ELSE <<Take(s, NotChar(s, c))>> \o SplitOn(Drop(s, NotChar(s, c) + 1), c)

\* (i.strip() for i in re.split(r'\|', v.strip())), without the empty ones
GroupPieces(v) ==
    SelectSeq([k \in 1..Len(SplitOn(Strip(v), "|")) |-> Strip(SplitOn(Strip(v), "|")[k])],
              LAMBDA i : i # <<>>)

\* The entries made of the pieces: the first that fails is what is raised.
GroupOfEntries(es) ==
    LET bad == {k \in 1..Len(es) : ~es[k].ok}
    IN  IF bad # {} THEN es[CHOOSE k \in bad : \A m \in bad : k <= m]
        ELSE [ok |-> TRUE,
              group |-> [k \in 1..Len(es) |->
                            Entry(es[k].name, es[k].operator, es[k].version,
                                  es[k].arches, es[k].restrictions)]]

\* PackageRelationGroup(v, arches=arches) for a string v
PackageRelationGroup(v, arches) ==
    IF v = <<>> THEN [ok |-> TRUE, group |-> <<>>]
    ELSE GroupOfEntries([k \in 1..Len(GroupPieces(v)) |->
                            PackageRelationEntry(GroupPieces(v)[k], arches)])

(***************************************************************************)
(* The packages of a flavour (debian/bin/gencontrol.py)                    *)
(***************************************************************************)

TermNoKernel == [profile |-> <<"pkg.linux.nokernel">>, negated |-> TRUE]
TermQuick == [profile |-> <<"pkg.linux.quick">>, negated |-> TRUE]

\* The name a template gives its package: the flavour is part of it for the
\* templates of a flavour.
PackageName(template, c) ==
    IF "flavour" \in DOMAIN c THEN <<"linux-", template, "-", c.flavour>>
    ELSE <<"linux-", template>>

\* bundle.add(template, ruleid, makeflags, vars, arch=arch): the one package
\* the template makes in the bundle, its Build-Profiles a formula of one
\* list.  c.template_fields are the relation fields the image templates
\* give; the headers template gives a Depends.
BundleAdd(bundle, template, c) ==
    <<[bundle |-> bundle, template |-> template,
       fields |-> (IF template \in {"image", "signed.image", "image-unsigned"}
                   THEN c.template_fields ELSE EmptyDict)
                  @@ ("Package" :> PackageName(template, c))
                  @@ ("Build-Profiles" :> <<{TermNoKernel}>>)
                  @@ ("Description" :> <<>>)
                  @@ (IF template = "headers" THEN "Depends" :> <<>> ELSE EmptyDict),
       meta |-> EmptyDict]>>

\* package.setdefault(field) for a relation field: the package with the
\* field in it.
PackageSetDefault(package, field) ==
    IF field \in DOMAIN package.fields THEN package
    ELSE [package EXCEPT !.fields = @ @@ (field :> <<>>)]

\* The fields the image configuration is merged into, in the order of the
\* loop, and the configuration key of each (field.lower()).
ImageFields == <<"Depends", "Provides", "Suggests", "Recommends", "Conflicts", "Breaks">>
NegatedFields == <<"Depends", "Suggests", "Recommends">>
FieldLower(field) ==
    CASE field = "Depends" -> "depends"
      [] field = "Provides" -> "provides"
      [] field = "Suggests" -> "suggests"
      [] field = "Recommends" -> "recommends"
      [] field = "Conflicts" -> "conflicts"
      [] field = "Breaks" -> "breaks"

\* [PackageRelationGroup(i, arches={arch}) for field in fields
\*  for i in config_entry_image(field.lower(), ())], each with its field
RECURSIVE ConfiguredGroups(_, _)
ConfiguredGroups(c, fields) ==
    IF fields = <<>> THEN <<>>
    ELSE [k \in 1..Len(c.image[FieldLower(Head(fields))]) |->
             [field |-> Head(fields),
              parsed |-> PackageRelationGroup(c.image[FieldLower(Head(fields))][k],
                                              {<<c.arch>>})]]
         \o ConfiguredGroups(c, Tail(fields))

\* package_image.setdefault(field).merge(group) for every configured group
RECURSIVE MergeConfigured(_, _)
MergeConfigured(package, groups) ==
    IF groups = <<>> THEN package
    ELSE MergeConfigured(
             [PackageSetDefault(package, Head(groups).field)
                 EXCEPT !.fields[Head(groups).field] =
                            RelationMerge(@, Head(groups).parsed.group)],
             Tail(groups))

\* The entries of the configured groups that have an operator, each with
\* the operator negated: entry.operator = -entry.operator
RECURSIVE NegatedEntries(_)
NegatedEntries(groups) ==
    IF groups = <<>> THEN <<>>
    ELSE LET g == Head(groups).parsed.group
         IN  [k \in 1..Len(SelectSeq(g, LAMBDA e : e.operator # <<>>)) |->
                 [SelectSeq(g, LAMBDA e : e.operator # <<>>)[k]
                     EXCEPT !.operator = <<OperatorNeg(@[1])>>]]
             \o NegatedEntries(Tail(groups))

\* package_image.setdefault('Breaks').append(PackageRelationGroup([entry]))
\* for every negated entry
AppendBreaks(package, entries) ==
    IF entries = <<>> THEN package
    ELSE [PackageSetDefault(package, "Breaks")
             EXCEPT !.fields["Breaks"] = @ \o [k \in 1..Len(entries) |-> <<entries[k]>>]]

\* The compiler build-depends merged into the source package's
\* Build-Depends-Arch: native, cross, kernel and compat.
CompilerEntry(name, c, restrictions) ==
    <<Entry(name, <<>>, <<>>, {<<c.arch>>}, restrictions)>>

TermOfProfile(profile, negated) == [profile |-> <<profile>>, negated |-> negated]

CompilerBuildDepends(rel, c) ==
    LET native == RelationMerge(rel,
                      CompilerEntry(c.compiler, c,
                          {{TermOfProfile("cross", TRUE), TermNoKernel}}))
        cross == RelationMerge(native,
                      CompilerEntry(c.compiler \o <<"-">> \o c.gnu_type_package, c,
                          {{TermOfProfile("cross", FALSE), TermNoKernel}}))
        kernel == IF c.kernel_gnu_type = <<>> THEN cross
                  ELSE RelationMerge(cross,
                           CompilerEntry(c.compiler \o <<"-">> \o c.kernel_gnu_type, c,
                               {{TermNoKernel}}))
    IN  IF c.compat_gnu_type = <<>> THEN kernel
        ELSE RelationMerge(kernel,
                 CompilerEntry(<<"gcc-">> \o c.compat_gnu_type, c, {{TermNoKernel}}))

\* build_signed
BuildSigned(c) == IF ~c.disable_signed THEN c.signed_code ELSE FALSE

\* packages_image as the bundles make them
PackagesImage(c) ==
    IF BuildSigned(c)
    THEN BundleAdd("signed", "signed.image", c) \o BundleAdd("main", "image-unsigned", c)
    ELSE BundleAdd("main", "image", c)

\* packages_meta: image.meta and headers.meta, with the generic names
\* provided by the default flavour of a source without suffix
PackagesMeta(c, self) ==
    LET bundle_signed == IF BuildSigned(c) THEN "signed" ELSE "main"
        meta == BundleAdd(bundle_signed, "image.meta", c)
                \o BundleAdd(bundle_signed,
                             IF BuildSigned(c) THEN "signed.headers.meta"
                             ELSE "headers.meta", c)
    IN  IF <<c.flavour>> = self.default_flavour /\ c.source_suffix = <<>>
        THEN <<[PackageSetDefault(meta[1], "Provides")
                   EXCEPT !.fields["Provides"] = Append(@, "linux-image-generic")],
               [PackageSetDefault(meta[2], "Provides")
                   EXCEPT !.fields["Provides"] = Append(@, "linux-headers-generic")]>>
        ELSE meta

\* package['Build-Profiles'][0].neg.add('pkg.linux.quick')
AddQuickExclusion(package) ==
    [package EXCEPT !.fields["Build-Profiles"][1] = @ \cup {TermQuick}]

\* A loop that binds package_image has run: one over a configured group of
\* the six fields, or the one over the description parts.
PackageImageBound(c) ==
    \/ \E field \in Range(ImageFields) : c.image[FieldLower(field)] # <<>>
    \/ c.desc_parts # <<>>

\* The udebs kernel-wedge lists, copied with their Build-Profiles and
\* rules target set.
UdebPackages(c, bundle, profiles, target) ==
    [k \in 1..Len(c.udebs) |->
        [bundle |-> bundle, template |-> "udeb",
         fields |-> ("Build-Profiles" :> <<profiles>>) @@ c.udebs[k],
         meta |-> ("rules-target" :> target)]]

UdebProfiles == {TermOfProfile("noudeb", TRUE), TermNoKernel, TermQuick}

\* Lines 567-629: the installer packages, added after own.
FlavourInstaller(c, self, own, source_bda) ==
    IF ~(~c.disable_installer /\ c.installer)
    THEN [ok |-> TRUE, packages |-> own,
          self |-> [self EXCEPT !.source_bda = source_bda]]
    ELSE IF c.kernel_wedge_fails
    THEN [ok |-> FALSE, error |-> "RuntimeError",
          message |-> "kernel-wedge exited with code %d"]
    ELSE IF c.udebs = <<>>
    THEN [ok |-> FALSE, error |-> "IndexError", message |-> ""]
    ELSE [ok |-> TRUE,
          packages |->
              own
              \o UdebPackages(c, IF BuildSigned(c) THEN "signed" ELSE "main",
                              UdebProfiles, "installer")
              \o (IF BuildSigned(c)
                  THEN UdebPackages(c, "main",
                           UdebProfiles
                           \cup {TermOfProfile("pkg.linux.udeb-unsigned-test-build", FALSE)},
                           "installer-test")
                  ELSE <<>>),
          self |-> [self EXCEPT !.source_bda = source_bda]]

\* Lines 485-505: debian/tests/control.  package_image is the variable the
\* loops over packages_image left behind.
FlavourTests(c, self, own, source_bda, package_image, headers) ==
    LET image_group == PackageRelationGroup(package_image.fields["Package"],
                                            {<<c.arch>>}).group
        with_image ==
            [self EXCEPT !.tests_control_image =
                 IF @ = <<>> THEN <<RelationMerge(<<>>, image_group)>>
                 ELSE <<RelationMerge(@[1], image_group)>>]
        headers_group == PackageRelationGroup(headers.fields["Package"],
                                              {<<c.arch>>}).group
        quick_or_default == IF self.quick_flavour # <<>> THEN self.quick_flavour
                            ELSE self.default_flavour
        with_headers ==
            IF <<c.flavour>> # quick_or_default THEN with_image
            ELSE [with_image EXCEPT !.tests_control_headers =
                     <<[Architecture |->
                            (IF @ = <<>> THEN {} ELSE @[1].Architecture) \cup {c.arch},
                        Depends |->
                            RelationMerge(IF @ = <<>> THEN <<>> ELSE @[1].Depends,
                                          headers_group)]>>]
    IN  IF ~PackageImageBound(c)
        THEN [ok |-> FALSE, error |-> "UnboundLocalError", message |-> "package_image"]
        ELSE FlavourInstaller(c, with_headers, own, source_bda)

\* The description parts of the configuration, appended to the image's
\* description: list(set(desc_parts)), sorted.
AppendDescription(package, c) ==
    IF c.desc_parts = <<>> THEN package
    ELSE [package EXCEPT !.fields["Description"] = @ \o Sorted(Range(c.desc_parts))]

\* A do_flavour_packages that adds the exclusion only when a quick flavour
\* is configured.
QuickExcludedIfConfigured(c, self) ==
    self.quick_flavour # <<>> /\ <<c.flavour>> # self.quick_flavour

\* Lines 481: flavour != self.quick_flavour
QuickExcluded(c, self) == <<c.flavour>> # self.quick_flavour

\* Line 318: do_meta = self.config.merge('packages').get('meta', True)
FlavourDoMeta(c) == c.meta

\* Lines 436-483: packages_own, from the image packages and the headers
\* package to the quick exclusion.
FlavourOwn(c, self, images, headers, source_bda) ==
    LET headers1 == [headers EXCEPT !.fields["Depends"] =
                        RelationMerge(@, <<Entry(c.compiler, <<>>, <<>>, {}, {})>>)]
        own == images \o <<headers1>>
               \o (IF FlavourDoMeta(c) THEN PackagesMeta(c, self) ELSE <<>>)
               \o BundleAdd("main", "image-dbg", c)
               \o (IF FlavourDoMeta(c) THEN BundleAdd("main", "image-dbg.meta", c)
                   ELSE <<>>)
    IN  FlavourTests(c, self,
                     IF QuickExcluded(c, self)
                     THEN [k \in 1..Len(own) |-> AddQuickExclusion(own[k])]
                     ELSE own,
                     source_bda, images[Len(images)], headers1)

\* Lines 398-434: the configured relations merged into the image packages,
\* the synthetic Breaks, the description parts.
FlavourImages(c, self, groups, headers, source_bda) ==
    LET bad == {k \in 1..Len(groups) : ~groups[k].parsed.ok}
        negated == NegatedEntries(SelectSeq(groups,
                                      LAMBDA g : g.field \in Range(NegatedFields)))
    IN  IF bad # {}
        THEN groups[CHOOSE k \in bad : \A m \in bad : k <= m].parsed
        ELSE FlavourOwn(c, self,
                 [k \in 1..Len(PackagesImage(c)) |->
                     AppendDescription(
                         AppendBreaks(MergeConfigured(PackagesImage(c)[k], groups),
                                      negated), c)],
                 headers, source_bda)

\* Gencontrol.do_flavour_packages(arch, featureset, flavour, vars,
\* makeflags) of the run self, with the configuration c of the flavour: the
\* packages added to the bundles, or what is raised.  The make flags of the
\* bundle.add calls are the walk's (DoFlavour).
DoFlavourPackages(c, self) ==
    FlavourImages(c, self, ConfiguredGroups(c, ImageFields),
                  BundleAdd("main", "headers", c)[1],
                  CompilerBuildDepends(self.source_bda, c))

\* Gencontrol.do_featureset_setup: the default and the quick flavour of the
\* branch.
DoFeaturesetSetup(c, self) ==
    IF c.default_flavour # <<>> /\ c.featureset # "none"
    THEN [ok |-> FALSE, error |-> "RuntimeError",
          message |-> "default-flavour set for %s %s, but must only be set for featureset none"]
    ELSE IF c.default_flavour # <<>> /\ c.default_flavour[1] \notin Range(c.flavours)
    THEN [ok |-> FALSE, error |-> "RuntimeError",
          message |-> "default-flavour %s for %s %s does not exist"]
    ELSE [ok |-> TRUE, packages |-> <<>>,
          self |-> [self EXCEPT !.default_flavour = c.default_flavour,
                                !.quick_flavour = c.quick_flavour]]

\* Lines 126-127: do_meta of do_main_packages
MainDoMeta(c) == c.meta /\ c.source_suffix # <<"-">> \o c.version

\* The templates do_main_packages adds, in order.
MainTemplates(c) ==
    <<"main">>
    \o (IF c.docs
        THEN <<"docs">> \o (IF MainDoMeta(c) THEN <<"docs.meta">> ELSE <<>>)
        ELSE <<>>)
    \o (IF c.source
        THEN <<"sourcebin">> \o (IF MainDoMeta(c) THEN <<"sourcebin.meta">> ELSE <<>>)
        ELSE <<>>)
    \o (IF c.libc_dev THEN <<"libc-dev">> ELSE <<>>)

\* Gencontrol.do_main_packages
DoMainPackages(c, self) ==
    IF c.libc_dev /\ c.dpkg_architecture_fails
    THEN [ok |-> FALSE, error |-> "CalledProcessError", message |-> ""]
    ELSE [ok |-> TRUE,
          packages |-> [k \in 1..Len(MainTemplates(c)) |->
                           BundleAdd("main", MainTemplates(c)[k], c)[1]],
          self |-> self]

\* The strings of a configured relation: groups with and without operator,
\* with alternatives, arches and restrictions, and malformed ones.
GroupStrings ==
    { <<"a">>, <<"a", " ", "|", " ", "b">> }
    \cup { <<"a", " ", "(", op, " ", "1", ")">> : op \in Operators }
    \cup { <<"a", " ", "(", ">=", "1", ")">>,
           <<"a", " ", "(", ">=", " ", "1", ")", " ", "|", " ", "b", " ", "(", "<<", " ", "2", ")">>,
           <<"b", "|", "a", " ", "(", "=", " ", "1", ")">>,
           <<"a", " ", "(", ">=", " ", "1", ")", " ", "[", "a2", "]">>,
           <<"a", " ", "(", ">>", " ", "1", ")", " ", "<", "!", "x", ">">>,
           <<"a", "(", ">=", " ", "1", ")">>,
           <<"a", " ", "(", ">=", " ", "1", ")", " ", "<", ">">> }

EmptyImage ==
    [k \in {"depends", "provides", "suggests", "recommends", "conflicts", "breaks"} |-> <<>>]

\* A configuration of a branch with the flavours f1 and f2 and nothing
\* optional in it.
PlainConfig ==
    [arch |-> "a1", featureset |-> "none", flavours |-> <<"f1", "f2">>,
     meta |-> TRUE, docs |-> TRUE, source |-> TRUE, libc_dev |-> FALSE,
     dpkg_architecture_fails |-> FALSE,
     source_suffix |-> <<>>, version |-> <<"1">>,
     compiler |-> <<"gcc">>, gnu_type_package |-> <<"gnu">>,
     kernel_gnu_type |-> <<>>, compat_gnu_type |-> <<>>,
     disable_signed |-> FALSE, signed_code |-> FALSE,
     default_flavour |-> <<>>, quick_flavour |-> <<>>,
     image |-> EmptyImage, desc_parts |-> <<<<"p1">>>>,
     template_fields |-> EmptyDict,
     disable_installer |-> FALSE, installer |-> FALSE,
     kernel_wedge_fails |-> FALSE, udebs |-> <<>>]

\* The branches whose image relations vary.
ImageConfigs ==
    {[PlainConfig EXCEPT !.image = [EmptyImage EXCEPT !["depends"] = d,
                                                      !["suggests"] = sg,
                                                      !["recommends"] = r,
                                                      !["breaks"] = b],
                         !.signed_code = signed,
                         !.template_fields = t,
                         !.desc_parts = parts] :
        d \in {<<>>, <<<<"a">>, <<"a", " ", "(", "<=", " ", "1", ")">>>>}
              \cup {<<g>> : g \in GroupStrings},
        sg \in {<<>>, <<<<"b", " ", "(", "<=", " ", "2", ")">>>>},
        r \in {<<>>, <<<<"b">>>>, <<<<"a", " ", "(", "=", " ", "1", ")">>>>},
        b \in {<<>>, <<<<"a", " ", "(", "<<", " ", "1", ")">>>>},
        signed \in BOOLEAN,
        t \in {EmptyDict,
               "Breaks" :> <<<<Entry(<<"c">>, <<"<<">>, <<<<"3">>>>, {}, {})>>>>},
        parts \in {<<>>, <<<<"p1">>>>}}

\* The branches whose meta option, suffix, default and quick flavour vary.
PolicyConfigs ==
    {[PlainConfig EXCEPT !.meta = meta, !.source_suffix = suffix,
                         !.quick_flavour = quick, !.default_flavour = default,
                         !.featureset = featureset, !.signed_code = signed,
                         !.docs = docs, !.source = source,
                         !.desc_parts = parts] :
        meta \in BOOLEAN,
        suffix \in {<<>>, <<"-", "1">>, <<"-", "2">>},
        quick \in {<<>>, <<"f1">>, <<"f2">>},
        default \in {<<>>, <<"f1">>, <<"f3">>},
        featureset \in {"none", "rt"},
        signed \in BOOLEAN, docs \in BOOLEAN, source \in BOOLEAN,
        parts \in {<<<<"p1">>>>, <<<<"p2">>, <<"p1">>, <<"p2">>>>}}

Udeb(name) == "Package" :> <<name>>

\* The branches whose installer, compilers and libc-dev option vary.
InstallerConfigs ==
    {[PlainConfig EXCEPT !.installer = installer, !.disable_installer = disable,
                         !.kernel_wedge_fails = fails, !.udebs = udebs,
                         !.signed_code = signed, !.disable_signed = disable_signed,
                         !.libc_dev = libc, !.dpkg_architecture_fails = dpkg,
                         !.kernel_gnu_type = kernel, !.compat_gnu_type = compat] :
        installer \in BOOLEAN, disable \in BOOLEAN, fails \in BOOLEAN,
        udebs \in {<<>>, <<Udeb("kernel-image")>>,
                   <<Udeb("kernel-image"), Udeb("nic-modules")>>},
        signed \in BOOLEAN, disable_signed \in BOOLEAN,
        libc \in BOOLEAN, dpkg \in BOOLEAN,
        kernel \in {<<>>, <<"gnu64">>}, compat \in {<<>>, <<"gnu">>}}

FlavourConfigs == ImageConfigs \cup PolicyConfigs \cup InstallerConfigs

\* The run before do_main: no flavour seen, nothing prepared for
\* debian/tests/control, the source package without compiler.
InitialSelf ==
    [default_flavour |-> <<>>, quick_flavour |-> <<>>,
     tests_control_image |-> <<>>, tests_control_headers |-> <<>>,
     source_bda |-> <<>>]

InitPackages ==
    /\ arg \in FlavourConfigs
    /\ ret = <<>>
    /\ rules = EmptyRules
    /\ rulesB = EmptyRules
    /\ relation = <<>>
    /\ WalkerIdle

\* self.do_main_packages(vars, makeflags)
CallDoMainPackages ==
    /\ ret = <<>>
    /\ ret' = <<[call |-> "do_main_packages", flavour |-> "",
                 result |-> DoMainPackages(arg, InitialSelf)]>>
    /\ UNCHANGED <<arg, rules, rulesB, relation, walkVars>>

\* self.do_featureset_setup(vars, makeflags, arch, featureset)
CallDoFeaturesetSetup ==
    /\ Len(ret) = 1
    /\ ret[1].result.ok
    /\ ret' = Append(ret, [call |-> "do_featureset_setup", flavour |-> "",
                           result |-> DoFeaturesetSetup(arg, ret[1].result.self)])
    /\ UNCHANGED <<arg, rules, rulesB, relation, walkVars>>

\* self.do_flavour_packages(arch, featureset, flavour, vars, makeflags) for
\* the next flavour of the branch
CallDoFlavourPackages ==
    /\ Len(ret) >= 2
    /\ Len(ret) - 1 <= Len(arg.flavours)
    /\ ret[Len(ret)].result.ok
    /\ ret' = Append(ret,
                  [call |-> "do_flavour_packages",
                   flavour |-> arg.flavours[Len(ret) - 1],
                   result |-> DoFlavourPackages(
                                  [flavour |-> arg.flavours[Len(ret) - 1]] @@ arg,
                                  ret[Len(ret)].result.self)])
    /\ UNCHANGED <<arg, rules, rulesB, relation, walkVars>>

NextPackages == CallDoMainPackages \/ CallDoFeaturesetSetup \/ CallDoFlavourPackages

SpecPackages == InitPackages /\ [][NextPackages]_vars

\* The entries of the parsed groups that have an operator, in order.
RECURSIVE OperatorEntries(_)
OperatorEntries(groups) ==
    IF groups = <<>> THEN <<>>
    ELSE SelectSeq(Head(groups).parsed.group, LAMBDA e : e.operator # <<>>)
         \o OperatorEntries(Tail(groups))

\* The pairs of an operator and its complement.
Complementary ==
    { <<"<<", ">=">>, <<">=", "<<">>, <<"<=", ">>">>, <<">>", "<=">>,
      <<"=", "!=">>, <<"!=", "=">> }

ImageTemplates == {"image", "signed.image", "image-unsigned"}

\* The Breaks of a package, empty when it has none.
BreaksOf(package) ==
    IF "Breaks" \in DOMAIN package.fields THEN package.fields["Breaks"] ELSE <<>>

\* The Breaks b of an image package end with one single-entry group for
\* each entry of es, with its name and version and the complement of its
\* operator, and hold no more groups before those than given.
SyntheticBreaks(b, es, given) ==
    /\ Len(b) >= Len(es)
    /\ Len(b) - Len(es) <= given
    /\ \A i \in 1..Len(es) :
          LET g == b[Len(b) - Len(es) + i]
          IN  /\ Len(g) = 1
              /\ g[1].name = es[i].name
              /\ g[1].version = es[i].version
              /\ <<es[i].operator[1], g[1].operator[1]>> \in Complementary

\* C21: for each image package of a flavour and each entry configured under
\* the image 'depends', 'suggests' or 'recommends' keys, an entry with a
\* version operator gives the package's Breaks one single-entry group with
\* the same name and version and the complementary operator, and an entry
\* without operator gives it none: the Breaks hold nothing but what the
\* template and the 'breaks' key give, followed by those groups.
C21_SyntheticBreaks ==
    \A k \in 1..Len(ret) :
        (ret[k].call = "do_flavour_packages" /\ ret[k].result.ok) =>
            \A i \in 1..Len(ret[k].result.packages) :
                ret[k].result.packages[i].template \in ImageTemplates =>
                    SyntheticBreaks(
                        BreaksOf(ret[k].result.packages[i]),
                        OperatorEntries(ConfiguredGroups(arg, NegatedFields)),
                        Len(DictGet(arg.template_fields, "Breaks", <<>>))
                        + Len(arg.image["breaks"]))

\* A signed flavour whose Depends are 'a' and 'a (<= 1)': each of its two
\* image packages breaks 'a (>> 1)' and nothing else.
C21_Witness ==
    /\ Len(ret) = 3
    /\ ret[3].call = "do_flavour_packages"
    /\ ret[3].result.ok
    /\ arg.image["depends"] = <<<<"a">>, <<"a", " ", "(", "<=", " ", "1", ")">>>>
    /\ arg.image["suggests"] = <<>>
    /\ arg.image["recommends"] = <<>>
    /\ \E i, j \in 1..Len(ret[3].result.packages) :
          /\ i # j
          /\ ret[3].result.packages[i].template = "signed.image"
          /\ ret[3].result.packages[j].template = "image-unsigned"
          /\ BreaksOf(ret[3].result.packages[i])
                 = <<<<Entry(<<"a">>, <<">>">>, <<<<"1">>>>, {<<"a1">>}, {})>>>>
          /\ BreaksOf(ret[3].result.packages[j])
                 = <<<<Entry(<<"a">>, <<">>">>, <<<<"1">>>>, {<<"a1">>}, {})>>>>

\* The package has the 'pkg.linux.quick' exclusion in its Build-Profiles.
HasQuickExclusion(package) ==
    \E k \in 1..Len(package.fields["Build-Profiles"]) :
        TermQuick \in package.fields["Build-Profiles"][k]

\* The packages do_flavour_packages made for the flavour itself, the udebs
\* of the installer aside.
OwnPackages(result) == SelectSeq(result.packages, LAMBDA p : p.template # "udeb")

MetaTemplates ==
    {"docs.meta", "sourcebin.meta", "image.meta", "headers.meta",
     "signed.headers.meta", "image-dbg.meta"}

\* C23: a meta package, top-level (docs.meta, sourcebin.meta) or of a
\* flavour (image.meta, headers.meta, image-dbg.meta), is produced only if
\* the 'meta' option is enabled and the source suffix differs from '-'
\* followed by the version.
C23_MetaOnlyWithoutCollision ==
    \A k \in 1..Len(ret) :
        ret[k].result.ok =>
            \A p \in Range(ret[k].result.packages) :
                p.template \in MetaTemplates =>
                    /\ arg.meta
                    /\ arg.source_suffix # <<"-">> \o arg.version

(***************************************************************************)
(* _ControlFileDict: SourcePackage, BinaryPackage, TestsControl            *)
(***************************************************************************)

\* _fields of the three kinds: the keys in order, each with its class.
Field(key, cls) == [key |-> <<key>>, cls |-> cls]

SourcePackageFields ==
    << Field("Source", "str"), Field("Architecture", "PackageArchitecture"),
       Field("Section", "str"), Field("Priority", "str"),
       Field("Maintainer", "str"), Field("Uploaders", "str"),
       Field("Standards-Version", "str"),
       Field("Build-Depends", "PackageRelation"),
       Field("Build-Depends-Arch", "PackageRelation"),
       Field("Build-Depends-Indep", "PackageRelation"),
       Field("Rules-Requires-Root", "str"), Field("Homepage", "str"),
       Field("Vcs-Browser", "str"), Field("Vcs-Git", "str"),
       Field("XS-Autobuild", "str") >>

BinaryPackageFields ==
    << Field("Package", "str"), Field("Package-Type", "str"),
       Field("Architecture", "PackageArchitecture"),
       Field("Section", "str"), Field("Priority", "str"),
       Field("Build-Depends", "PackageRelation"),
       Field("Build-Depends-Arch", "PackageRelation"),
       Field("Build-Depends-Indep", "PackageRelation"),
       Field("Build-Profiles", "PackageBuildRestrictFormula"),
       Field("Built-Using", "PackageRelation"),
       Field("Provides", "PackageRelation"),
       Field("Pre-Depends", "PackageRelation"),
       Field("Depends", "PackageRelation"),
       Field("Recommends", "PackageRelation"),
       Field("Suggests", "PackageRelation"),
       Field("Replaces", "PackageRelation"),
       Field("Breaks", "PackageRelation"),
       Field("Conflicts", "PackageRelation"),
       Field("Multi-Arch", "str"), Field("Kernel-Version", "str"),
       Field("Description", "PackageDescription"),
       Field("Homepage", "str") >>

TestsControlFields ==
    << Field("Tests", "str"), Field("Test-Command", "str"),
       Field("Architecture", "PackageArchitecture"),
       Field("Restrictions", "str"), Field("Features", "str"),
       Field("Depends", "PackageRelation"),
       Field("Tests-Directory", "str"), Field("Classes", "str") >>

Kinds == {"SourcePackage", "BinaryPackage", "TestsControl"}

FieldsOf(kind) ==
    CASE kind = "SourcePackage" -> SourcePackageFields
      [] kind = "BinaryPackage" -> BinaryPackageFields
      [] kind = "TestsControl" -> TestsControlFields

\* self._fields[key]: the class of the key, "KeyError" when it has none
FieldClass(kind, key) ==
    IF \E k \in 1..Len(FieldsOf(kind)) : FieldsOf(kind)[k].key = key
    THEN FieldsOf(kind)[CHOOSE k \in 1..Len(FieldsOf(kind)) :
                            FieldsOf(kind)[k].key = key].cls
    ELSE "KeyError"

\* str.lower() on the characters the keys are made of
LowerChar(c) ==
    CASE c = "M" -> "m" [] c = "E" -> "e" [] c = "T" -> "t" [] c = "A" -> "a"
      [] c = "X" -> "x" [] c = "Rules-Target" -> "rules-target"
      [] c = "Metadata" -> "metadata" [] c = "X-A" -> "x-a" [] c = "X-b" -> "x-b"
      [] c = "Package" -> "package" [] c = "Depends" -> "depends"
      [] c = "Source" -> "source" [] c = "Tests" -> "tests"
      [] c = "Architecture" -> "architecture"
      [] c = "Build-Profiles" -> "build-profiles"
      [] c = "Description" -> "description"
      [] OTHER -> c

Lower(s) == [k \in 1..Len(s) |-> LowerChar(s[k])]

\* The pieces of s that are not empty after strip(), as split on c.
StrippedPieces(s, c) ==
    SelectSeq([k \in 1..Len(SplitOn(s, c)) |-> Strip(SplitOn(s, c)[k])],
              LAMBDA i : i # <<>>)

\* The groups made of the pieces: the first that fails is what is raised.
RelationOfGroups(gs) ==
    LET bad == {k \in 1..Len(gs) : ~gs[k].ok}
    IN  IF bad # {} THEN gs[CHOOSE k \in bad : \A m \in bad : k <= m]
        ELSE [ok |-> TRUE, value |-> [k \in 1..Len(gs) |-> gs[k].group]]

\* PackageRelation(v) for a string v
PackageRelation(v) ==
    IF v = <<>> THEN [ok |-> TRUE, value |-> <<>>]
    ELSE RelationOfGroups(
             [k \in 1..Len(StrippedPieces(Strip(v), ",")) |->
                 PackageRelationGroup(StrippedPieces(Strip(v), ",")[k], {})])

\* long.split('\n.\n')
RECURSIVE SplitParagraphs(_)
SplitParagraphs(s) ==
    LET at == {i \in 1..Len(s) - 2 : SubSeq(s, i, i + 2) = <<"\n", ".", "\n">>}
        i == CHOOSE i \in at : \A j \in at : i <= j
    IN  IF at = {} THEN <<s>>
        ELSE <<Take(s, i - 1)>> \o SplitParagraphs(Drop(s, i + 2))

\* PackageDescription(v) for a string v: the short parts of the first line
\* and the paragraphs of the rest.
PackageDescription(v) ==
    LET first == Take(v, NotChar(v, "\n"))
        rest == Strip(Drop(v, NotChar(v, "\n") + 1))
    IN  [short |-> StrippedPieces(first, ","),
         long |-> IF rest = <<>> THEN <<>> ELSE SplitParagraphs(rest)]

\* cls(value) for a string value that is not of the class of the field
FieldValue(cls, value) ==
    CASE cls = "str" -> [ok |-> TRUE, value |-> value]
      [] cls = "PackageArchitecture" ->
             [ok |-> TRUE, value |-> PackageArchitecture(value)]
      [] cls = "PackageRelation" -> PackageRelation(value)
      [] cls = "PackageBuildRestrictFormula" ->
             IF PackageBuildRestrictFormula(value).ok
             THEN [ok |-> TRUE, value |-> PackageBuildRestrictFormula(value).lists]
             ELSE PackageBuildRestrictFormula(value)
      [] cls = "PackageDescription" ->
             [ok |-> TRUE, value |-> PackageDescription(value)]

\* A value as a record holds it: the class it is of and what it holds.
Typed(cls, value) == [cls |-> cls, value |-> value]

\* _ControlFileDict(): no field, no meta entry; warnings are those issued
\* for the record so far.
NewRecord(kind) ==
    [kind |-> kind, data |-> EmptyDict, meta |-> EmptyDict, warnings |-> <<>>,
     raised |-> <<>>]

\* A __setitem__ that tests the key as it is spelled.
ControlSetItemCaseSensitive(record, key, value) ==
    IF StartsWith(key, <<"m", "e", "t", "a", "-">>)
    THEN [record EXCEPT !.meta = DictSet(@, Drop(Lower(key), 5), Typed("str", value))]
    ELSE IF FieldClass(record.kind, key) = "KeyError"
    THEN [record EXCEPT
             !.warnings = Append(@, <<"setting unknown field ">> \o key
                                    \o <<" in ", record.kind>>),
             !.data = DictSet(@, key, Typed("str", value))]
    ELSE IF ~FieldValue(FieldClass(record.kind, key), value).ok
    THEN [record EXCEPT
             !.raised = <<FieldValue(FieldClass(record.kind, key), value).error>>]
    ELSE [record EXCEPT
             !.data = DictSet(@, key,
                          Typed(FieldClass(record.kind, key),
                                FieldValue(FieldClass(record.kind, key), value).value))]

\* _ControlFileDict.__setitem__(key, value) for a string value
ControlSetItem(record, key, value) ==
    IF StartsWith(Lower(key), <<"m", "e", "t", "a", "-">>)
    THEN [record EXCEPT !.meta = DictSet(@, Drop(Lower(key), 5), Typed("str", value))]
    ELSE IF FieldClass(record.kind, key) = "KeyError"
    THEN [record EXCEPT
             !.warnings = Append(@, <<"setting unknown field ">> \o key
                                    \o <<" in ", record.kind>>),
             !.data = DictSet(@, key, Typed("str", value))]
    ELSE IF ~FieldValue(FieldClass(record.kind, key), value).ok
    THEN [record EXCEPT
             !.raised = <<FieldValue(FieldClass(record.kind, key), value).error>>]
    ELSE [record EXCEPT
             !.data = DictSet(@, key,
                          Typed(FieldClass(record.kind, key),
                                FieldValue(FieldClass(record.kind, key), value).value))]

\* _ControlFileDict.__delitem__(key)
ControlDelItem(record, key) ==
    IF key \in DOMAIN record.data THEN [record EXCEPT !.data = DictDel(@, key)]
    ELSE [record EXCEPT !.raised = <<"KeyError">>]

\* _ControlFileDict.__iter__: the keys of the schema that are set, in the
\* order of the schema, then the other keys, sorted.
ControlIter(record) ==
    LET schema == [k \in 1..Len(FieldsOf(record.kind)) |-> FieldsOf(record.kind)[k].key]
    IN  SelectSeq(schema, LAMBDA k : k \in DOMAIN record.data)
        \o Sorted(DOMAIN record.data \ Range(schema))

\* write_rfc822 on one record: a line "key: value" for each item of the
\* record, in the order the record iterates.
ControlWrite(record) ==
    [k \in 1..Len(ControlIter(record)) |->
        [key |-> ControlIter(record)[k],
         value |-> record.data[ControlIter(record)[k]]]]

MaxAssignments == 3     \* assignments and deletions made on one record

MetaPrefix == <<"m", "e", "t", "a", "-">>

\* The assignments made: keys that carry the meta prefix in several letter
\* cases, a key that only begins like it, keys of the three schemas and keys
\* of none.
ControlAssignments ==
    { <<<<"M", "e", "t", "a", "-", "X">>, <<"v1">>>>,
      <<<<"m", "e", "t", "a", "-", "x">>, <<"v2">>>>,
      <<<<"m", "E", "T", "A", "-", "X-A">>, <<"v1">>>>,
      <<<<"Metadata">>, <<"v1">>>>,
      <<<<"Package">>, <<"p1">>>>,
      <<<<"Source">>, <<"p2">>>>,
      <<<<"Tests">>, <<"t1">>>>,
      <<<<"Depends">>, <<"a1", " ", ",", "a2", " ", "|", " ", "a3">>>>,
      <<<<"Depends">>, <<"a1", " ", "(", "=", ")">>>>,
      <<<<"Build-Profiles">>, <<"<", "!", "p1", " ", "p2", ">">>>>,
      <<<<"Build-Profiles">>, <<"<", "p1">>>>,
      <<<<"Description">>, <<"a1", ",", "a2", "\n", "a3">>>>,
      <<<<"X-A">>, <<"v1">>>>,
      <<<<"X-b">>, <<>>>>,
      <<<<"x-a">>, <<"v2">>>> }

ControlKeys == {a[1] : a \in ControlAssignments}

\* ret holds the calls made on a record of the kind arg: what each was
\* given, the record before and the record after.
Record == IF ret = <<>> THEN NewRecord(arg) ELSE ret[Len(ret)].after

ControlCall(op, key, value, after, output) ==
    [op |-> op, key |-> key, value |-> value, before |-> Record,
     after |-> after, output |-> output]

InitControl ==
    /\ arg \in Kinds
    /\ ret = <<>>
    /\ rules = EmptyRules
    /\ rulesB = EmptyRules
    /\ relation = <<>>
    /\ WalkerIdle

\* record[key] = value
CallSetItem ==
    /\ Len(ret) < MaxAssignments
    /\ Record.raised = <<>>
    /\ \E a \in ControlAssignments :
           ret' = Append(ret, ControlCall("set", a[1], a[2],
                                          ControlSetItem(Record, a[1], a[2]), <<>>))
    /\ UNCHANGED <<arg, rules, rulesB, relation, walkVars>>

\* del record[key]
CallDelItem ==
    /\ Len(ret) < MaxAssignments
    /\ Record.raised = <<>>
    /\ \E key \in ControlKeys :
           ret' = Append(ret, ControlCall("del", key, <<>>,
                                          ControlDelItem(Record, key), <<>>))
    /\ UNCHANGED <<arg, rules, rulesB, relation, walkVars>>

\* write_rfc822(f, [record])
CallWrite ==
    /\ ret # <<>>
    /\ ret[Len(ret)].op # "write"
    /\ Record.raised = <<>>
    /\ ret' = Append(ret, ControlCall("write", <<>>, <<>>, Record,
                                      ControlWrite(Record)))
    /\ UNCHANGED <<arg, rules, rulesB, relation, walkVars>>

NextControl == CallSetItem \/ CallDelItem \/ CallWrite

SpecControl == InitControl /\ [][NextControl]_vars

\* The key carries the meta prefix in some letter case.
IsMetaKey(key) ==
    /\ Len(key) >= 5
    /\ key[1] \in {"m", "M"}
    /\ key[2] \in {"e", "E"}
    /\ key[3] \in {"t", "T"}
    /\ key[4] \in {"a", "A"}
    /\ key[5] = "-"

\* The key is one of the schema of the kind.
InSchema(kind, key) == \E k \in 1..Len(FieldsOf(kind)) : FieldsOf(kind)[k].key = key

\* The keys of the lines written, in order.
WrittenKeys(output) == [k \in 1..Len(output) |-> output[k].key]

\* C24 (meta part): an assignment to a key with the meta prefix, in any
\* letter case, puts the value in the meta map under the lower-cased rest of
\* the key and nowhere else: the fields are as before, no key with the
\* prefix is ever a field, and none is ever written.
MetaOnlyInMeta ==
    \A k \in 1..Len(ret) :
        /\ (ret[k].op = "set" /\ IsMetaKey(ret[k].key)) =>
               /\ ret[k].after.data = ret[k].before.data
               /\ Drop(Lower(ret[k].key), 5) \in DOMAIN ret[k].after.meta
               /\ ret[k].after.meta[Drop(Lower(ret[k].key), 5)].value = ret[k].value
               /\ \A m \in DOMAIN ret[k].before.meta \ {Drop(Lower(ret[k].key), 5)} :
                      ret[k].after.meta[m] = ret[k].before.meta[m]
               /\ ret[k].after.warnings = ret[k].before.warnings
               /\ ret[k].after.raised = <<>>
        /\ \A key \in DOMAIN ret[k].after.data : ~IsMetaKey(key)
        /\ \A i \in 1..Len(ret[k].output) : ~IsMetaKey(ret[k].output[i].key)

\* C24 (unknown part): an assignment to a key outside the schema of the
\* kind raises nothing, issues one warning and stores the value as given;
\* what is written has the fields of the schema first and the other keys
\* after them in sorted order, each stored key once.
UnknownStoredAndSorted ==
    \A k \in 1..Len(ret) :
        /\ ( /\ ret[k].op = "set"
             /\ ~IsMetaKey(ret[k].key)
             /\ ~InSchema(arg, ret[k].key) ) =>
               /\ ret[k].after.raised = <<>>
               /\ Len(ret[k].after.warnings) = Len(ret[k].before.warnings) + 1
               /\ ret[k].key \in DOMAIN ret[k].after.data
               /\ ret[k].after.data[ret[k].key].value = ret[k].value
        /\ ret[k].op = "write" =>
               /\ Range(WrittenKeys(ret[k].output)) = DOMAIN ret[k].before.data
               /\ Len(ret[k].output) = Cardinality(DOMAIN ret[k].before.data)
               /\ \A i \in 1..Len(ret[k].output) :
                      ret[k].output[i].value = ret[k].before.data[ret[k].output[i].key]
               /\ \A i, j \in 1..Len(ret[k].output) :
                      (i < j /\ ~InSchema(arg, ret[k].output[i].key)) =>
                          /\ ~InSchema(arg, ret[k].output[j].key)
                          /\ StrLess(ret[k].output[i].key, ret[k].output[j].key)

\* C24: a key with the meta prefix goes to the meta map alone; a key outside
\* the schema is warned about, stored and written after the schema fields in
\* sorted order.
C24_MetaAndUnknownKeys == MetaOnlyInMeta /\ UnknownStoredAndSorted

\* A record that was given a meta key spelled with capitals and two keys
\* outside its schema, the greater first, and was then written.
C24_Witness ==
    /\ Len(ret) = 4
    /\ ret[4].op = "write"
    /\ ret[1].op = "set" /\ IsMetaKey(ret[1].key) /\ ret[1].key # Lower(ret[1].key)
    /\ ret[2].op = "set" /\ ret[3].op = "set"
    /\ ~InSchema(arg, ret[2].key) /\ ~InSchema(arg, ret[3].key)
    /\ StrLess(ret[3].key, ret[2].key)
    /\ WrittenKeys(ret[4].output) = <<ret[3].key, ret[2].key>>
    /\ Len(ret[4].before.warnings) = 2
    /\ DOMAIN ret[4].before.meta = {Drop(Lower(ret[1].key), 5)}

(***************************************************************************)
(* str() of a PackageBuildRestrictFormula                                  *)
(***************************************************************************)

\* PackageBuildRestrictTerm.__lt__
TermLess(s, t) ==
    \/ StrLess(s.profile, t.profile)
    \/ s.profile = t.profile /\ ~s.negated /\ t.negated

\* PackageBuildRestrictTerm.__str__
TermStr(t) == (IF t.negated THEN <<"!">> ELSE <<>>) \o t.profile

\* sorted(lst) for a frozenset of terms: __lt__ is total on terms that differ.
RECURSIVE SortedTerms(_)
SortedTerms(S) ==
    IF S = {} THEN <<>>
    ELSE LET m == CHOOSE x \in S : \A y \in S \ {x} : TermLess(x, y)
         IN  <<m>> \o SortedTerms(S \ {m})

\* PackageBuildRestrictList.__str__
ListStr(lst) ==
    Join(<<" ">>, [k \in 1..Cardinality(lst) |-> TermStr(SortedTerms(lst)[k])])

\* frozenset.__lt__, which PackageBuildRestrictList inherits: proper subset
ListLess(a, b) == a \subseteq b /\ a # b

\* list.sort, count_run: the length of the run the list starts with, and
\* whether it is a strictly descending one.
RECURSIVE RunEnd(_, _, _)
RunEnd(a, n, descending) ==
    IF n < Len(a) /\ (ListLess(a[n + 1], a[n]) <=> descending)
    THEN RunEnd(a, n + 1, descending)
    ELSE n

CountRun(a) ==
    IF Len(a) < 2 THEN [n |-> Len(a), descending |-> FALSE]
    ELSE [n |-> RunEnd(a, 2, ListLess(a[2], a[1])),
          descending |-> ListLess(a[2], a[1])]

\* list.sort, binarysort: where the pivot goes in the sorted a[l+1..r]
RECURSIVE BinaryPlace(_, _, _, _)
BinaryPlace(a, pivot, l, r) ==
    IF l >= r THEN l
    ELSE IF ListLess(pivot, a[l + (r - l) \div 2 + 1])
    THEN BinaryPlace(a, pivot, l, l + (r - l) \div 2)
    ELSE BinaryPlace(a, pivot, l + (r - l) \div 2 + 1, r)

\* list.sort, binarysort: a[1..start] is sorted, the rest is inserted
RECURSIVE BinarySort(_, _)
BinarySort(a, start) ==
    IF start >= Len(a) THEN a
    ELSE LET pivot == a[start + 1]
             l == BinaryPlace(a, pivot, 0, start)
         IN  BinarySort(Take(a, l) \o <<pivot>> \o SubSeq(a, l + 1, start)
                        \o Drop(a, start + 1), start + 1)

\* sorted(a) for a list of fewer than 64 restriction lists
SortedLists(a) ==
    IF CountRun(a).descending
    THEN BinarySort(Reverse(Take(a, CountRun(a).n)) \o Drop(a, CountRun(a).n),
                    CountRun(a).n)
    ELSE BinarySort(a, CountRun(a).n)

\* PackageBuildRestrictFormula.__str__ when the set iterates in the order
\* given
FormulaStr(order) ==
    Join(<<" ">>, [k \in 1..Len(order) |->
                      <<"<">> \o ListStr(SortedLists(order)[k]) \o <<">">>])

MaxRenders == 2         \* times str() is taken of one formula
MaxLists == 3           \* lists in the formula rendered

RenderTerms ==
    [negated : BOOLEAN, profile : {<<"p1">>, <<"p2">>}]

RenderLists == SUBSET RenderTerms \ {{}}

RenderFormulas == {f \in SUBSET RenderLists : Cardinality(f) <= MaxLists}

InitRender ==
    /\ arg \in RenderFormulas
    /\ ret = <<>>
    /\ rules = EmptyRules
    /\ rulesB = EmptyRules
    /\ relation = <<>>
    /\ WalkerIdle

\* str(formula): the set is iterated in an order that its hashes and the
\* order of the additions decide.
CallFormulaStr ==
    /\ Len(ret) < MaxRenders
    /\ \E order \in IterOrders(arg) :
           ret' = Append(ret, [order |-> order, text |-> FormulaStr(order)])
    /\ UNCHANGED <<arg, rules, rulesB, relation, walkVars>>

NextRender == CallFormulaStr

SpecRender == InitRender /\ [][NextRender]_vars

\* C25: the renderings of one formula are all the same text, whatever the
\* order its lists are iterated in.
C25_CanonicalRendering ==
    \A i, j \in 1..Len(ret) : ret[i].text = ret[j].text

(***************************************************************************)
(* _ControlFileDict.copy(): records whose values are objects               *)
(***************************************************************************)

\* A record as Python holds it: its dicts map a key to an object, and the
\* objects live in a heap (a sequence, an object being its position).
\* What a reader of the record sees: each key with the content of its object.
View(rec, heap) ==
    [kind |-> rec.kind,
     data |-> [k \in DOMAIN rec.data |-> heap[rec.data[k]]],
     meta |-> [k \in DOMAIN rec.meta |-> heap[rec.meta[k]]],
     warnings |-> <<>>, raised |-> <<>>]

\* _ControlFileDict.copy(): a new record whose two dicts are copies of the
\* dicts of the record; the objects are the same.
ControlCopy(rec, heap) ==
    [rec |-> [kind |-> rec.kind, data |-> rec.data, meta |-> rec.meta],
     heap |-> heap]

\* rec[key] = value: the dict entry is bound to a new object.
RefSetItem(rec, heap, key, value) ==
    LET after == ControlSetItem(View(rec, heap), key, value)
    IN  IF after.raised # <<>> THEN [rec |-> rec, heap |-> heap]
        ELSE IF StartsWith(Lower(key), MetaPrefix)
        THEN [rec |-> [rec EXCEPT !.meta = DictSet(@, Drop(Lower(key), 5),
                                                   Len(heap) + 1)],
              heap |-> Append(heap, after.meta[Drop(Lower(key), 5)])]
        ELSE [rec |-> [rec EXCEPT !.data = DictSet(@, key, Len(heap) + 1)],
              heap |-> Append(heap, after.data[key])]

\* del rec[key]
RefDelItem(rec, heap, key) ==
    [rec |-> [rec EXCEPT !.data = DictDel(@, key)], heap |-> heap]

\* rec[key].merge(group) on a PackageRelation, rec[key].add(arch) on a
\* PackageArchitecture: the object itself is changed.
RefMutate(rec, heap, key, with) ==
    [rec |-> rec,
     heap |-> [heap EXCEPT ![rec.data[key]] =
                 IF @.cls = "PackageRelation"
                 THEN Typed(@.cls, RelationMerge(@.value, with))
                 ELSE Typed(@.cls, @.value \cup {with})]]

\* rec.meta[key][rule] = flags on a meta entry that is a dict
RefMutateMeta(rec, heap, key, rule, flags) ==
    [rec |-> rec,
     heap |-> [heap EXCEPT ![rec.meta[key]] =
                 Typed(@.cls, DictSet(@.value, rule, flags))]]

MaxCopySteps == 2       \* operations made after the copy

\* The record copied: a binary package as merge_packages_rules leaves it.
CopiedRecords ==
    { [rec |-> [kind |-> "BinaryPackage",
                data |-> (<<"Package">> :> 1) @@ D,
                meta |-> M],
       heap |-> << Typed("str", <<"p1">>),
                   Typed("PackageRelation",
                         <<PackageRelationGroup(<<"a1">>, {}).group>>),
                   Typed("PackageArchitecture", {<<"a1">>}),
                   Typed("str", <<"t1">>),
                   Typed("dict", (<<"r1">> :> <<"v1">>)) >>] :
        D \in { EmptyDict, (<<"Depends">> :> 2),
                (<<"Depends">> :> 2) @@ (<<"Architecture">> :> 3) },
        M \in { EmptyDict, (<<"rules-target">> :> 4),
                (<<"rules-target">> :> 4) @@ (<<"rules-rules">> :> 5) } }

CopyAssignments ==
    { a \in ControlAssignments :
        a[1] \in {<<"M", "e", "t", "a", "-", "X">>, <<"Package">>, <<"X-A">>}
        \/ a = <<<<"Depends">>, <<"a1", " ", "(", "=", ")">>>> }
    \cup { <<<<"Depends">>, <<"a2">>>>,
           <<<<"m", "e", "t", "a", "-", "rules-target">>, <<"t2">>>> }

\* What a field can be changed with in place.
MutateWith(obj) ==
    IF obj.cls = "PackageRelation"
    THEN {PackageRelationGroup(<<"a1", " ", "[", "a2", "]">>, {}).group,
          PackageRelationGroup(<<"a3">>, {}).group}
    ELSE IF obj.cls = "PackageArchitecture" THEN {<<"a2">>}
    ELSE {}

\* ret[1] is the copy() of arg; each later element is an operation made on
\* the original or on the copy.
InitCopy ==
    /\ arg \in CopiedRecords
    /\ ret = <<>>
    /\ rules = EmptyRules
    /\ rulesB = EmptyRules
    /\ relation = <<>>
    /\ WalkerIdle

Last == ret[Len(ret)]

\* The record of a side, and the records of a step with the record of a
\* side replaced.
SideOf(step, side) == IF side = "copy" THEN step.copy ELSE step.original

CopyStep(op, side, r) ==
    [op |-> op, side |-> side,
     original |-> IF side = "original" THEN r.rec ELSE Last.original,
     copy |-> IF side = "copy" THEN r.rec ELSE Last.copy,
     heap |-> r.heap]

\* copy = original.copy()
CallCopy ==
    /\ ret = <<>>
    /\ ret' = <<[op |-> "copy", side |-> "copy", original |-> arg.rec,
                 copy |-> ControlCopy(arg.rec, arg.heap).rec,
                 heap |-> ControlCopy(arg.rec, arg.heap).heap]>>
    /\ UNCHANGED <<arg, rules, rulesB, relation, walkVars>>

\* side[key] = value
CallCopySetItem ==
    /\ ret # <<>> /\ Len(ret) <= MaxCopySteps
    /\ \E side \in {"original", "copy"}, a \in CopyAssignments :
           ret' = Append(ret, CopyStep("set", side,
                       RefSetItem(SideOf(Last, side), Last.heap, a[1], a[2])))
    /\ UNCHANGED <<arg, rules, rulesB, relation, walkVars>>

\* del side[key]
CallCopyDelItem ==
    /\ ret # <<>> /\ Len(ret) <= MaxCopySteps
    /\ \E side \in {"original", "copy"} :
           \E key \in DOMAIN SideOf(Last, side).data :
               ret' = Append(ret, CopyStep("del", side,
                           RefDelItem(SideOf(Last, side), Last.heap, key)))
    /\ UNCHANGED <<arg, rules, rulesB, relation, walkVars>>

\* side[key].merge(group), side[key].add(arch)
CallCopyMutate ==
    /\ ret # <<>> /\ Len(ret) <= MaxCopySteps
    /\ \E side \in {"original", "copy"} :
           \E key \in DOMAIN SideOf(Last, side).data :
               \E with \in MutateWith(Last.heap[SideOf(Last, side).data[key]]) :
                   ret' = Append(ret, CopyStep("mutate", side,
                               RefMutate(SideOf(Last, side), Last.heap, key, with)))
    /\ UNCHANGED <<arg, rules, rulesB, relation, walkVars>>

\* side.meta['rules-rules'][rule] = flags
CallCopyMutateMeta ==
    /\ ret # <<>> /\ Len(ret) <= MaxCopySteps
    /\ \E side \in {"original", "copy"} :
           /\ <<"rules-rules">> \in DOMAIN SideOf(Last, side).meta
           /\ Last.heap[SideOf(Last, side).meta[<<"rules-rules">>]].cls = "dict"
           /\ ret' = Append(ret, CopyStep("mutate-meta", side,
                         RefMutateMeta(SideOf(Last, side), Last.heap,
                                       <<"rules-rules">>, <<"real">>, <<"v2">>)))
    /\ UNCHANGED <<arg, rules, rulesB, relation, walkVars>>

NextCopy ==
    \/ CallCopy
    \/ CallCopySetItem
    \/ CallCopyDelItem
    \/ CallCopyMutate
    \/ CallCopyMutateMeta

SpecCopy == InitCopy /\ [][NextCopy]_vars

\* What is seen of the side an operation was not made on.
OtherSide(step) ==
    IF step.side = "copy" THEN View(step.original, step.heap)
    ELSE View(step.copy, step.heap)

OtherSideBefore(k) ==
    IF ret[k].side = "copy" THEN View(ret[k - 1].original, ret[k - 1].heap)
    ELSE View(ret[k - 1].copy, ret[k - 1].heap)

\* C26: an operation made on the copy (setting, deleting, changing a value
\* in place) leaves every field value and meta entry of the original as it
\* was, and an operation on the original leaves the copy as it was.
C26_CopyIsIndependent ==
    \A k \in 2..Len(ret) : OtherSide(ret[k]) = OtherSideBefore(k)

(***************************************************************************)
(* add_package_build_restriction                                           *)
(***************************************************************************)

\* add_package_build_restriction(package, term) on the Build-Profiles
\* formula of the package, for a term given as a string: the new formula, or
\* what PackageBuildRestrictTerm raised.
add_package_build_restriction(old_form, term) ==
    IF ~PackageBuildRestrictTerm(term).ok THEN PackageBuildRestrictTerm(term)
    ELSE [ok |-> TRUE,
          lists |-> {old_list \cup {TermOf(PackageBuildRestrictTerm(term))} :
                        old_list \in old_form}]

MaxRestrictions == 2    \* restrictions added to one package

\* The terms added, as strings: un-negated, negated, and no term at all.
RestrictionTerms ==
    {<<"p1">>, <<"!", "p1">>, <<"p2">>, <<"t1">>, <<"!">>}

\* The Build-Profiles formula of the package so far.
BuildProfiles == IF ret = <<>> THEN arg ELSE ret[Len(ret)].after

InitAddRestriction ==
    /\ arg \in RenderFormulas
    /\ ret = <<>>
    /\ rules = EmptyRules
    /\ rulesB = EmptyRules
    /\ relation = <<>>
    /\ WalkerIdle

\* add_package_build_restriction(package, term), then
\* restriction_requires_profile(package['Build-Profiles'], term)
CallAddRestriction ==
    /\ Len(ret) < MaxRestrictions
    /\ \E term \in RestrictionTerms :
           LET r == add_package_build_restriction(BuildProfiles, term)
           IN  ret' = Append(ret,
                   [term |-> term, before |-> BuildProfiles, ok |-> r.ok,
                    after |-> IF r.ok THEN r.lists ELSE BuildProfiles,
                    requires |-> IF r.ok
                                 THEN restriction_requires_profile(r.lists, term)
                                 ELSE r])
    /\ UNCHANGED <<arg, rules, rulesB, relation, walkVars>>

NextAddRestriction == CallAddRestriction

SpecAddRestriction == InitAddRestriction /\ [][NextAddRestriction]_vars

\* C27: after a term was added, every list of the formula holds the term
\* and the terms it held before, and an un-negated term is required by the
\* formula, whatever the formula was before.
C27_RestrictedByTerm ==
    \A k \in 1..Len(ret) :
        ret[k].ok =>
            /\ \A new \in ret[k].after :
                   TermOf(PackageBuildRestrictTerm(ret[k].term)) \in new
            /\ \A old \in ret[k].before :
                   \E new \in ret[k].after : old \subseteq new
            /\ ~PackageBuildRestrictTerm(ret[k].term).negated =>
                   ret[k].requires.ok /\ ret[k].requires.value

(***************************************************************************)
(* Sequences of merge_packages_rules calls                                 *)
(***************************************************************************)

MaxMergeCalls == 2      \* merge_packages_rules calls made

\* A record as process_package makes it, told apart by its Section.
MergeRecord(name, section) ==
    [key |-> name,
     fields |-> DictSet(DictSet(EmptyDict, "Package", name), "Section", section),
     meta |-> DictSet(EmptyDict, "rules-target", "t1")]

\* The lists of packages handed to one call: one record, two records of
\* different names, two records of one name.
MergeBatches ==
    { <<MergeRecord("p1", "a")>>, <<MergeRecord("p1", "b")>>,
      <<MergeRecord("p2", "a")>>,
      <<MergeRecord("p1", "a"), MergeRecord("p2", "b")>>,
      <<MergeRecord("p1", "b"), MergeRecord("p1", "a")>>,
      <<MergeRecord("p2", "b"), MergeRecord("p1", "b")>> }

\* The package list after the calls made so far.
PackagesSoFar == IF ret = <<>> THEN <<>> ELSE ret[Len(ret)].packages

InitMergeRules ==
    /\ arg = <<>>
    /\ ret = <<>>
    /\ rules = EmptyRules
    /\ rulesB = EmptyRules
    /\ relation = <<>>
    /\ WalkerIdle

\* self.merge_packages_rules(packages, rule, makeflags, arch=arch,
\*                           check_packages=check_packages)
CallMergePackagesRules ==
    /\ Len(ret) < MaxMergeCalls
    /\ \E pkgs \in MergeBatches, rule \in {"r1", "real"},
          arch \in {"None", "a1", "a2"},
          opts \in {<<1, TRUE>>, <<2, FALSE>>} :
           ret' = Append(ret,
               [pkgs |-> pkgs, rule |-> rule, arch |-> arch,
                makeflags |-> opts[1], check_packages |-> opts[2],
                packages |-> MergePackagesRules(PackagesSoFar, pkgs, rule,
                                                opts[1], arch, opts[2])])
    /\ UNCHANGED <<arg, rules, rulesB, relation, walkVars>>

NextMergeRules == CallMergePackagesRules

SpecMergeRules == InitMergeRules /\ [][NextMergeRules]_vars

\* The calls, of the first k, that registered the name.
Registering(name, k) ==
    {j \in 1..k : \E i \in 1..Len(ret[j].pkgs) : ret[j].pkgs[i].key = name}

\* The record first handed in under the name.
FirstRegistered(name, k) ==
    LET j == CHOOSE j \in Registering(name, k) :
                 \A m \in Registering(name, k) : j <= m
        i == CHOOSE i \in 1..Len(ret[j].pkgs) :
                 /\ ret[j].pkgs[i].key = name
                 /\ \A m \in 1..i - 1 : ret[j].pkgs[m].key # name
    IN  ret[j].pkgs[i]

\* C28: after the calls, each name registered is in the list once, with
\* the fields of the record first registered under it, a rules-rules entry
\* for every rule it was registered under and the architectures of the
\* calls that registered it, no more and no less.
C28_OneRecordPerName ==
    \A k \in 1..Len(ret) :
        LET pl == ret[k].packages
        IN  /\ \A i, j \in 1..Len(pl) : pl[i].key = pl[j].key => i = j
            /\ \A name \in {"p1", "p2"} :
                   IF Registering(name, k) = {}
                   THEN \A i \in 1..Len(pl) : pl[i].key # name
                   ELSE \E i \in 1..Len(pl) :
                       /\ pl[i].key = name
                       /\ pl[i].fields = FirstRegistered(name, k).fields
                       /\ "rules-rules" \in DOMAIN pl[i].meta
                       /\ {e.rule : e \in Range(pl[i].meta["rules-rules"])}
                              = {ret[j].rule : j \in Registering(name, k)}
                       /\ DictGet(pl[i].meta, "architectures", {})
                              = {ret[j].arch : j \in Registering(name, k)} \ {"None"}

\* Two calls registered one name under two rules and two architectures,
\* the second call with another record of that name.
C28_Witness ==
    /\ Len(ret) = 2
    /\ ret[1].pkgs[1].key = "p1"
    /\ \E i \in 1..Len(ret[2].pkgs) :
           /\ ret[2].pkgs[i].key = "p1"
           /\ ret[2].pkgs[i].fields # ret[1].pkgs[1].fields
    /\ ret[1].rule # ret[2].rule
    /\ ret[1].arch # "None" /\ ret[2].arch # "None" /\ ret[1].arch # ret[2].arch
    /\ Len(ret[2].packages) = 1

(***************************************************************************)
(* extract_makefile after merge_packages_rules calls                       *)
(***************************************************************************)

MaxRegistrations == 2   \* merge_packages_rules calls before extract_makefile

\* A record as process_package makes it.
ExtractRecord(name, arches, target) ==
    [key |-> name,
     fields |-> DictSet(DictSet(EmptyDict, "Package", name),
                        "Architecture", arches),
     meta |-> IF target = "None" THEN EmptyDict
              ELSE DictSet(EmptyDict, "rules-target", target)]

\* The MakeFlags objects handed to merge_packages_rules.
ExtractFlags ==
    << DictSet(EmptyDict, "ARCH", <<"a1">>),
       DictSet(DictSet(EmptyDict, "ARCH", <<"a2">>), "FLAVOUR", <<"f1">>) >>

\* arg holds the two packages of the run.
InitExtract ==
    /\ arg \in {<<ExtractRecord("p1", a1, t1), ExtractRecord("p2", a2, t2)>> :
                   a1 \in {{"all"}, {"a1"}}, t1 \in {"t1", "None"},
                   a2 \in {{"all"}, {"a1"}}, t2 \in {"t1", "r1"}}
    /\ ret = <<>>
    /\ rules = EmptyRules
    /\ rulesB = EmptyRules
    /\ relation = <<>>
    /\ WalkerIdle

\* self.merge_packages_rules(packages, rule, makeflags, arch=arch,
\*                           check_packages=check_packages)
CallRegister ==
    /\ Len(ret) < MaxRegistrations
    /\ \E pkgs \in {<<arg[1]>>, <<arg[2]>>, arg},
          rule \in {<<"r1">>, <<"real">>}, arch \in {"None", "a2"},
          opts \in {<<1, TRUE>>, <<2, FALSE>>} :
           ret' = Append(ret,
               [op |-> "register", pkgs |-> pkgs, rule |-> rule, arch |-> arch,
                makeflags |-> opts[1], check_packages |-> opts[2],
                packages |-> MergePackagesRules(PackagesSoFar, pkgs, rule,
                                                opts[1], arch, opts[2]),
                rules |-> EmptyRules])
    /\ UNCHANGED <<arg, rules, rulesB, relation, walkVars>>

\* self.extract_makefile()
CallExtractMakefile ==
    /\ ret # <<>>
    /\ ret[Len(ret)].op = "register"
    /\ \E rs \in ExtractRulesResults(
                     EmptyRules, ExtractTargets(PackagesSoFar, <<>>, 1).targets,
                     ExtractFlags) :
           ret' = Append(ret,
               [op |-> "extract", pkgs |-> <<>>, rule |-> <<>>, arch |-> "None",
                makeflags |-> 0, check_packages |-> TRUE,
                packages |-> ExtractTargets(PackagesSoFar, <<>>, 1).packages,
                rules |-> rs])
    /\ UNCHANGED <<arg, rules, rulesB, relation, walkVars>>

NextExtract == CallRegister \/ CallExtractMakefile

SpecExtract == InitExtract /\ [][NextExtract]_vars

\* The architecture set of a package: what the calls registered, or else
\* its Architecture field.
ArchitecturesOf(package) ==
    IF DictGet(package.meta, "architectures", {}) # {}
    THEN package.meta["architectures"]
    ELSE DictGet(package.fields, "Architecture", {})

TypeOf(package) == IF ArchitecturesOf(package) = {"all"} THEN "indep" ELSE "arch"

\* The rule name <step>-<type>_<rule>
TypedRule(step, package, rule) ==
    <<IF TypeOf(package) = "indep"
      THEN (IF step = "build" THEN "build-indep" ELSE "binary-indep")
      ELSE (IF step = "build" THEN "build-arch" ELSE "binary-arch"), "_">>
    \o rule

\* The rule table has <step>-<type>_R_T as a prerequisite of
\* <step>-<type>_R, with a command that lists the package and carries the
\* make flags the package was registered with for R.
HasTargetRule(rs, step, package, e) ==
    LET top == TypedRule(step, package, e.rule)
        sub == top \o <<"_", package.meta["rules-target"]>>
    IN  /\ top \in DOMAIN rs
        /\ sub \in rs[top].deps
        /\ sub \in DOMAIN rs
        /\ \E c \in Range(rs[sub].cmds) :
               /\ package.key \in c.packages \cup c.packages_extra
               /\ \A key \in DOMAIN ExtractFlags[e.makeflags] :
                      c.makeflags[key] = ExtractFlags[e.makeflags][key]

\* C29: after extract_makefile every package with a rules-target has, for
\* each rule it was registered under, the build and the binary rule of its
\* own type, target and make flags.
C29_TargetRulesPerPackage ==
    \A k \in 1..Len(ret) :
        ret[k].op = "extract" =>
            \A i \in 1..Len(ret[k].packages) :
                LET package == ret[k].packages[i]
                IN  "rules-target" \in DOMAIN package.meta =>
                        \A e \in Range(DictGet(package.meta, "rules-rules", <<>>)) :
                            /\ HasTargetRule(ret[k].rules, "build", package, e)
                            /\ HasTargetRule(ret[k].rules, "binary", package, e)

(***************************************************************************)
(* merge_build_depends and the text of the relations it leaves             *)
(***************************************************************************)

\* The texts sep.join(parts) can be, each part having the texts of a set.
RECURSIVE JoinChoices(_, _)
JoinChoices(sep, sets) ==
    IF sets = <<>> THEN {<<>>}
    ELSE IF Len(sets) = 1 THEN sets[1]
    ELSE {h \o sep \o t : h \in sets[1], t \in JoinChoices(sep, Tail(sets))}

\* sorted(S) for a set of strings held as single tokens
SortedTokens(S) ==
    [k \in 1..Cardinality(S) |-> Sorted({<<a>> : a \in S})[k][1]]

\* PackageArchitecture.__str__
ArchitectureStr(S) ==
    Join(<<" ">>, [k \in 1..Cardinality(S) |-> <<SortedTokens(S)[k]>>])

\* str() of a list of strings: ['a1', 'a2']
ListReprStr(q) ==
    <<"[">> \o Join(<<",", " ">>, [k \in 1..Len(q) |-> <<"'", q[k], "'">>])
    \o <<"]">>

\* f'{self.arches}' of an entry: of a PackageArchitecture, or of the list
\* merge_build_depends left.
EntryArchesStr(item) ==
    IF "arches_list" \in DOMAIN item /\ item.arches_list
    THEN ListReprStr(SortedTokens(item.arches))
    ELSE ArchitectureStr(item.arches)

\* PackageRelationEntry.__str__: the texts it can give, one for each order
\* the restriction formula can iterate in.
EntryStrs(item) ==
    {Join(<<" ">>,
          <<<<item.name>>>>
          \o (IF item.operator # "None" /\ item.version # "None"
              THEN <<<<"(", item.operator, " ", item.version, ")">>>>
              ELSE <<>>)
          \o (IF item.arches # {}
              THEN <<<<"[">> \o EntryArchesStr(item) \o <<"]">>>>
              ELSE <<>>)
          \o (IF item.restrictions # {} THEN <<FormulaStr(order)>> ELSE <<>>)) :
        order \in IterOrders(item.restrictions)}

\* PackageRelationGroup.__str__
GroupStrs(group) ==
    JoinChoices(<<" ", "|", " ">>, [k \in 1..Len(group) |-> EntryStrs(group[k])])

\* PackageRelation.__str__
RelationStrs(rel) ==
    JoinChoices(<<",", " ">>, [k \in 1..Len(rel) |-> GroupStrs(rel[k])])

BuildDependsPlain == Entry("gcc", "None", "None", {}, {})

\* The Build-Depends a binary package comes with: none, an empty one,
\* entries with and without architectures and restrictions of their own.
BuildDependsInputs ==
    { <<>>,
      << <<BuildDependsPlain>> >>,
      << <<Entry("gcc", ">=", "13", {"a3"}, {})>> >>,
      << <<Entry("gcc", "None", "None", {},
                 {{[negated |-> FALSE, profile |-> <<"p1">>]}})>>,
         <<BuildDependsPlain, Entry("clang", "None", "None", {"a3", "a1"}, {})>> >> }

BuildProfilesInputs ==
    { {}, {{[negated |-> TRUE, profile |-> <<"p2">>]}} }

\* A binary package: deps and profiles are <<>> for a field it has not, or
\* hold the value of the field.
BinaryWith(name, arches, deps, profiles) ==
    [key |-> name,
     fields |-> (IF deps = <<>> THEN EmptyDict
                 ELSE DictSet(EmptyDict, "Build-Depends", deps[1]))
                @@ (IF profiles = <<>> THEN EmptyDict
                    ELSE DictSet(EmptyDict, "Build-Profiles", profiles[1]))
                @@ DictSet(DictSet(EmptyDict, "Package", name),
                           "Architecture", arches),
     meta |-> EmptyDict]

SourceRecord ==
    [key |-> "source", fields |-> DictSet(EmptyDict, "Source", "linux"),
     meta |-> EmptyDict]

\* arg is self.packages: the source package and two binary packages.
InitBuildDepends ==
    /\ arg \in {<<SourceRecord, BinaryWith("p1", a1, d1, b1),
                  BinaryWith("p2", a2, d2, <<{}>>)>> :
                   a1 \in {{"all"}, {"a2", "a1"}},
                   d1 \in {<<>>} \cup {<<d>> : d \in BuildDependsInputs},
                   b1 \in {<<>>} \cup {<<b>> : b \in BuildProfilesInputs},
                   a2 \in {{"all"}, {"a1"}},
                   d2 \in {<<>>, << << <<BuildDependsPlain>> >> >>}}
    /\ ret = <<>>
    /\ rules = EmptyRules
    /\ rulesB = EmptyRules
    /\ relation = <<>>
    /\ WalkerIdle

\* self.merge_build_depends()
CallMergeBuildDepends ==
    /\ ret = <<>>
    /\ ret' = <<[op |-> "merge", packages |-> MergeBuildDependsFrom(arg, 1),
                 output |-> <<>>]>>
    /\ UNCHANGED <<arg, rules, rulesB, relation, walkVars>>

\* The relation fields of the source package as write_control writes them.
CallWriteSource ==
    /\ Len(ret) = 1
    /\ \E arch \in RelationStrs(DictGet(ret[1].packages[1].fields,
                                        "Build-Depends-Arch", <<>>)),
          indep \in RelationStrs(DictGet(ret[1].packages[1].fields,
                                         "Build-Depends-Indep", <<>>)) :
           ret' = Append(ret, [op |-> "write", packages |-> ret[1].packages,
                               output |-> <<arch, indep>>])
    /\ UNCHANGED <<arg, rules, rulesB, relation, walkVars>>

NextBuildDepends == CallMergeBuildDepends \/ CallWriteSource

SpecBuildDepends == InitBuildDepends /\ [][NextBuildDepends]_vars

\* What the entry is to be after the merge for a package with the fields
\* given: architectures and restrictions of its own kept, the package's
\* taken otherwise, the architectures held as a PackageArchitecture.
MergedEntry(item, fields) ==
    Entry(item.name, item.operator, item.version,
          IF item.arches = {} /\ fields["Architecture"] # {"all"}
          THEN fields["Architecture"] ELSE item.arches,
          IF item.restrictions = {}
          THEN DictGet(fields, "Build-Profiles", {}) ELSE item.restrictions)

\* The groups a package hands over, as they are to be afterwards.
MergedGroups(fields) ==
    LET dep == DictGet(fields, "Build-Depends", <<>>)
    IN  [g \in 1..Len(dep) |->
            [i \in 1..Len(dep[g]) |-> MergedEntry(dep[g][i], fields)]]

\* The groups of the binary packages of the kind, in the order of the list.
RECURSIVE ExpectedGroups(_, _, _)
ExpectedGroups(pl, k, indep) ==
    IF k > Len(pl) THEN <<>>
    ELSE (IF pl[k].key # "source"
             /\ (pl[k].fields["Architecture"] = {"all"}) = indep
          THEN MergedGroups(pl[k].fields) ELSE <<>>)
         \o ExpectedGroups(pl, k + 1, indep)

\* C30: after merge_build_depends no binary package has a Build-Depends
\* field; its groups are in Build-Depends-Indep of the source package when
\* its architecture is all, in Build-Depends-Arch otherwise; each entry has
\* its own architectures and restrictions or else those of the package, and
\* is written with its architectures sorted, space-separated, in brackets.
C30_BuildDependsMerged ==
    ret # <<>> =>
        LET after == ret[1].packages
            arch == DictGet(after[1].fields, "Build-Depends-Arch", <<>>)
            indep == DictGet(after[1].fields, "Build-Depends-Indep", <<>>)
        IN  /\ \A k \in 2..Len(after) :
                   "Build-Depends" \notin DOMAIN after[k].fields
            /\ RelationStrs(arch) = RelationStrs(ExpectedGroups(arg, 1, FALSE))
            /\ RelationStrs(indep) = RelationStrs(ExpectedGroups(arg, 1, TRUE))

====
